---- MODULE Spec2Model ----
(***************************************************************************)
(* Verification model of imageboard-downloader-rs: the download queue      *)
(* (Queue, Post::get), the blacklist filter, the credential cache and the  *)
(* resume marker handling of main.                                         *)
(***************************************************************************)
EXTENDS Integers, Sequences, FiniteSets, TLC

VARIABLES
    \* ---- Queue (src/imageboards/queue/mod.rs) ----
    list,              \* Queue.list
    user_blacklist,    \* Queue.user_blacklist
    imageboard,        \* Queue.imageboard
    limit,             \* Queue.limit, Option as a set: {} is None, {n} is Some(n)
    cbz,               \* Queue.cbz
    sim_downloads,     \* Queue.sim_downloads
    disable_blacklist, \* argument of Queue::download
    save_as_id,        \* argument of Queue::download
    gblFile,           \* the blacklist.toml file read by GlobalBlacklist::get
    \* ---- record of the calls of blacklist_filter ----
    filterLog,         \* one record per call: input list, result, count, output
    \* ---- Extractor page filtering (danbooru/mod.rs, e621/unsync.rs) ----
    posts,             \* the page returned by get_post_list
    safe_mode,         \* DanbooruExtractor.safe_mode
    download_ratings,  \* E621Extractor.download_ratings
    total_removed,     \* Extractor.total_removed
    pageLog,           \* one record per filtered page: extractor, input, output
    \* ---- credential cache (imageboards/mod.rs, utils.rs, danbooru/mod.rs) ----
    cacheFile,         \* the file <config-dir>/<imageboard>, per imageboard
    auth_state,        \* Extractor.auth_state
    auth,              \* Extractor.auth: ImageboardConfig
    authLog,           \* one record per call of auth / auth_imgboard
    \* ---- Queue::download and Post::get (queue/mod.rs, post/mod.rs) ----
    dl,                \* "idle" | "running" | "done" (Ok) | "failed" (Err)
    task,              \* per list position: the state of the future d.get(..)
    counters,          \* ProgressCounter: main, total_mtx, downloaded_mtx
    paths,             \* output directory: file name -> inode (0: no such file)
    inodes,            \* contents of the files, by inode
    dirs,              \* the directories that exist under the output path
    zip,               \* the ZipWriter of the .cbz file
    requested,         \* positions whose get issued a network request
    \* ---- main (main.rs) ----
    mainPc,            \* "off" | "extracted" | "download" | "ended"
    mainRes,           \* "none" | "Ok" | "Err" | "panic"
    post_queue,        \* post_queue.posts, as returned by full_search
    update,            \* args.update
    last_post,         \* Option: the Post with the highest id
    marker,            \* the file .00_download_summary.bin
    resumeLog,         \* Option: what the resume step read, got and handed on
    \* ---- Extractor (ibdl-extractors/src/websites, extractors/gelbooru) ----
    extractor,         \* which full_search / async_fetch runs
    ext_tags,          \* Extractor.tags
    start_page,        \* argument start_page
    search_limit,      \* argument limit
    epc,               \* "off" | "validate" | "fetch" | "done"
    page,              \* the loop variable page
    fvec,              \* the Posts accumulated so far
    has_posts,         \* async_fetch: has_posts
    total_posts_sent,  \* async_fetch: total_posts_sent
    sender_channel,    \* the Posts sent on the channel, in order
    searchRes,         \* "none" | "Ok" | an ExtractorError | "panic"
    fetchLog,          \* the requests issued, with what came back
    slept,             \* the values of page after which the loop slept
    post_counter,      \* argument post_counter: Option, the capacity of the channel
    counter_queue,     \* the messages waiting in the channel of post_counter
    unsent,            \* the Posts of the page the loop has yet to send
    \* ---- one source answering a full_search and an async_fetch alike ----
    source_script,     \* the answer to the count request and to the k-th page request
    full_run,          \* Option: what full_search did and returned on the script
    async_run          \* Option: what async_fetch did and returned on the script

queueVars == <<list, user_blacklist, imageboard, limit, cbz, sim_downloads,
               disable_blacklist, save_as_id, gblFile>>
filterVars == <<filterLog>>
pageVars == <<posts, safe_mode, download_ratings, total_removed, pageLog>>
authVars == <<cacheFile, auth_state, auth, authLog>>
dlVars == <<dl, task, counters, paths, inodes, dirs, zip, requested>>
mainVars == <<mainPc, mainRes, post_queue, update, last_post, marker, resumeLog>>
extVars == <<extractor, ext_tags, start_page, search_limit, epc, page, fvec, has_posts,
             total_posts_sent, sender_channel, searchRes, fetchLog, slept, post_counter,
             counter_queue, unsent>>
counterVars == <<post_counter, counter_queue, unsent>>
eqVars == <<source_script, full_run, async_run>>
vars == <<queueVars, filterVars, pageVars, authVars, dlVars, mainVars, extVars, eqVars>>

----------------------------------------------------------------------------
(* Bounds *)

\* longest Post list drawn as an input
MaxLen == 3
\* number of consecutive filter calls on one Queue
MaxCalls == 2
\* number of authentication attempts (process starts) on one config directory
MaxAuths == 2
\* longest Post list handed to Queue::download
MaxQueue == 2
\* largest value of the simultaneous-downloads option that is drawn
MaxSim == 2
\* the hard page cap of the page loops (100 in the source)
MaxPages == 2
\* the page size: the most items a source puts on a page (100, 200 or 1000 in
\* the source)
MaxItems == 2

----------------------------------------------------------------------------
(* Data *)

Tags == {"explicit", "gore"}

ImageBoards == {"danbooru", "e621", "rule34", "realbooru", "konachan", "gelbooru"}

Rating == {"Safe", "Questionable", "Explicit", "Unknown"}

\* Option<T> as a set with at most one element
None == {}
Some(x) == {x}

\* The posts the inputs are drawn from.  md5 is the digest announced by the
\* API; posts 7 and 3 announce the same digest (the same file posted twice).
Post(i, m, r, t) == [id |-> i, md5 |-> m, extension |-> "jpg", rating |-> r, tags |-> t]

PostPool ==
    { Post(10, 1, "Safe", {}),
      Post(7, 5, "Explicit", {"explicit"}),
      Post(5, 2, "Questionable", {"gore"}),
      Post(3, 5, "Safe", {"explicit", "gore"}) }

RECURSIVE SeqsUpTo(_, _)
SeqsUpTo(S, n) ==
    IF n = 0 THEN {<<>>}
    ELSE LET shorter == SeqsUpTo(S, n - 1)
         IN shorter \cup {Append(s, x) : s \in {q \in shorter : Len(q) = n - 1}, x \in S}

Ids(s) == [k \in 1..Len(s) |-> s[k].id]

\* the tag sets a blacklist tier is drawn from
TierChoices == {{}, {"explicit"}, {"gore"}}

----------------------------------------------------------------------------
(* GlobalBlacklist, queue/blacklist.rs *)

BlacklistCategories(g, d, e) ==
    [global |-> g, danbooru |-> d, e621 |-> e, realbooru |-> {}, rule34 |-> {},
     gelbooru |-> {}, konachan |-> {}]

EmptyCategories == BlacklistCategories({}, {}, {})

\* The file is missing, unparsable, or parses to GlobalBlacklist{blacklist}
GblMissing == [state |-> "missing", blacklist |-> None]
GblInvalid == [state |-> "invalid", blacklist |-> None]
GblParsed(b) == [state |-> "ok", blacklist |-> b]

\* BF_INIT_TEXT: every category present and empty
BF_INIT_TEXT == GblParsed(Some(EmptyCategories))

\* GlobalBlacklist::get: creates the file from BF_INIT_TEXT when it is missing,
\* then reads and parses it.  Returns the file afterwards and the result.
GlobalBlacklist_get(file) ==
    LET f == IF file.state = "missing" THEN BF_INIT_TEXT ELSE file
    IN [file |-> f,
        ok |-> f.state = "ok",
        blacklist |-> f.blacklist]

----------------------------------------------------------------------------
(* Queue::blacklist_filter, queue/mod.rs *)

HasTagIn(c, set) == \E s \in c.tags : s \in set

\* a match whose E621 arm returns the Danbooru set
special_tags_wrong_arm(tags, board) ==
    CASE board = "danbooru" -> tags.danbooru
      [] board = "e621" -> tags.danbooru
      [] board = "rule34" -> tags.rule34
      [] board = "realbooru" -> tags.realbooru
      [] board = "konachan" -> tags.konachan
      [] board = "gelbooru" -> tags.gelbooru

\* match self.imageboard { ... => tags.<imageboard> }
special_tags(tags, board) ==
    CASE board = "danbooru" -> tags.danbooru
      [] board = "e621" -> tags.e621
      [] board = "rule34" -> tags.rule34
      [] board = "realbooru" -> tags.realbooru
      [] board = "konachan" -> tags.konachan
      [] board = "gelbooru" -> tags.gelbooru

\* the sequence without its first element that has a tag in the set
RECURSIVE RemoveFirst(_, _)
RemoveFirst(s, set) ==
    IF s = <<>> THEN <<>>
    ELSE IF HasTagIn(Head(s), set) THEN Tail(s)
    ELSE <<Head(s)>> \o RemoveFirst(Tail(s), set)

\* a first tier that removes only the first blacklisted post it meets
UserTier_first_only(l, blacklist) ==
    IF blacklist # {}
    THEN LET kept == RemoveFirst(l, blacklist)
         IN [list |-> kept, removed |-> Len(l) - Len(kept)]
    ELSE [list |-> l, removed |-> 0]

\* first tier: the user blacklist
UserTier(l, blacklist) ==
    IF blacklist # {}
    THEN LET kept == SelectSeq(l, LAMBDA c : ~HasTagIn(c, blacklist))
         IN [list |-> kept, removed |-> Len(l) - Len(kept)]
    ELSE [list |-> l, removed |-> 0]

\* a second tier that assigns the count (removed = bp) instead of adding it
GlobalTier_assign(st, tags) ==
    IF tags.global # {}
    THEN LET kept == SelectSeq(st.list, LAMBDA c : ~HasTagIn(c, tags.global))
         IN [list |-> kept, removed |-> Len(st.list) - Len(kept)]
    ELSE st

\* second tier: tags.global; bp = fsize - self.list.len()
GlobalTier(st, tags) ==
    IF tags.global # {}
    THEN LET kept == SelectSeq(st.list, LAMBDA c : ~HasTagIn(c, tags.global))
         IN [list |-> kept, removed |-> st.removed + (Len(st.list) - Len(kept))]
    ELSE st

\* third tier: the set of the selected imageboard
SpecialTier(st, tags, board) ==
    LET sp == special_tags(tags, board)
    IN IF sp # {}
       THEN LET kept == SelectSeq(st.list, LAMBDA c : ~HasTagIn(c, sp))
            IN [list |-> kept, removed |-> st.removed + (Len(st.list) - Len(kept))]
       ELSE st

\* the function without its early return on the disable flag
blacklist_filter_no_disable(l, blacklist, board, file, disable) ==
    LET u == UserTier(l, blacklist)
        gbl == GlobalBlacklist_get(file)
    IN IF ~gbl.ok
       THEN [res |-> "Err", list |-> u.list, removed |-> 0, file |-> gbl.file]
       ELSE IF gbl.blacklist = None
       THEN [res |-> "Ok", list |-> u.list, removed |-> u.removed, file |-> gbl.file]
       ELSE LET tags == CHOOSE t \in gbl.blacklist : TRUE
                g == GlobalTier(u, tags)
                s == SpecialTier(g, tags, board)
            IN [res |-> "Ok", list |-> s.list, removed |-> s.removed,
                file |-> gbl.file]

\* The whole function: result "Ok"/"Err", the list left in self.list, the
\* returned count and the blacklist file afterwards.
blacklist_filter(l, blacklist, board, file, disable) ==
    IF disable
    THEN [res |-> "Ok", list |-> l, removed |-> 0, file |-> file]
    ELSE LET u == UserTier(l, blacklist)
             gbl == GlobalBlacklist_get(file)
         IN IF ~gbl.ok
            THEN [res |-> "Err", list |-> u.list, removed |-> 0, file |-> gbl.file]
            ELSE IF gbl.blacklist = None
            THEN [res |-> "Ok", list |-> u.list, removed |-> u.removed, file |-> gbl.file]
            ELSE LET tags == CHOOSE t \in gbl.blacklist : TRUE
                     g == GlobalTier(u, tags)
                     s == SpecialTier(g, tags, board)
                 IN [res |-> "Ok", list |-> s.list, removed |-> s.removed,
                     file |-> gbl.file]

----------------------------------------------------------------------------
(* BlacklistFilter of the extractors (ibdl-extractors/src/blacklist.rs) *)

\* BlacklistFilter::init / ::new: the tiers merged into one tag set, the
\* accepted ratings, and the disable flag
BlacklistFilter_init(board, user_tags, ratings, disabled, file) ==
    LET gbl == GlobalBlacklist_get(file)
        tags == IF gbl.ok /\ gbl.blacklist # None
                THEN CHOOSE t \in gbl.blacklist : TRUE
                ELSE EmptyCategories
    IN [ok |-> gbl.ok,
        disabled |-> disabled,
        gbl_tags |-> user_tags \cup tags.global \cup special_tags(tags, board),
        selected_ratings |-> ratings]

\* BlacklistFilter::filter: (removed, retained)
BlacklistFilter_filter(bf, l) ==
    IF bf.disabled
    THEN [removed |-> 0, list |-> l]
    ELSE LET kept == SelectSeq(l, LAMBDA c :
                        /\ ~HasTagIn(c, bf.gbl_tags)
                        /\ (bf.selected_ratings = {} \/ c.rating \in bf.selected_ratings))
         IN [removed |-> Len(l) - Len(kept), list |-> kept]

\* DanbooruExtractor::full_search, the filtering of one page
DanbooruPageFilter(bf, on_page, disable, safe) ==
    IF ~disable \/ safe
    THEN BlacklistFilter_filter(bf, on_page)
    ELSE [removed |-> 0, list |-> on_page]

\* E621Extractor::async_fetch, the filtering of one page
E621PageFilter(bf, on_page, disable, ratings) ==
    IF ~disable \/ ratings # {}
    THEN BlacklistFilter_filter(bf, on_page)
    ELSE [removed |-> 0, list |-> on_page]

----------------------------------------------------------------------------
(* Extractors: validation and the page loop of full_search / async_fetch *)

Extractors == {"danbooru", "moebooru", "gelbooru", "e621_async", "gelbooru_async"}

\* the imageboard an extractor runs on when nothing else is selected
ExtractorBoard(e) ==
    CASE e = "danbooru" -> "danbooru"
      [] e = "moebooru" -> "konachan"
      [] e = "gelbooru" -> "rule34"
      [] e = "e621_async" -> "e621"
      [] e = "gelbooru_async" -> "gelbooru"

\* the Posts the pages of a source are made of
ExtractPool == {d \in PostPool : d.id \in {10, 7}}

\* an item of a page as the source serves it: the fields of a Post (its md5
\* or hash among them), with or without a direct file url
RawItem(d, has_url) == [post |-> d, file_url |-> has_url, hash |-> TRUE]

RawPool ==
    {RawItem(d, TRUE) : d \in ExtractPool}
    \cup {RawItem(CHOOSE d \in PostPool : d.id = 5, FALSE)}

\* what a request can come back with: a transport or body-decoding error, a
\* JSON value of another shape than expected, or the expected shape
Response(res, n, items) == [res |-> res, n |-> n, items |-> items]

CountResponses ==
    {Response("conn", 0, <<>>), Response("invalid", 0, <<>>),
     Response("ok", 0, <<>>), Response("ok", 1, <<>>)}

PageResponses ==
    {Response("conn", 0, <<>>), Response("invalid", 0, <<>>)}
    \cup {Response("ok", Len(s), s) : s \in SeqsUpTo(RawPool, MaxItems)}

\* one entry of the record of requests
Request(kind, position, resp) == [kind |-> kind, position |-> position, resp |-> resp]

\* .filter(|c| c["file_url"].as_str().is_some()).map(..).collect()
map_posts(items) ==
    LET with_url == SelectSeq(items, LAMBDA c : c.file_url)
    IN [k \in 1..Len(with_url) |-> with_url[k].post]

\* the two shapes GelbooruExtractor::get_post_list accepts: an array of items,
\* or an object holding the array under "post"
ResponseShapes == {"array", "post"}

\* GelbooruExtractor::get_post_list, the mapping of a decoded body: an array is
\* filtered on f["hash"], and its items are mapped with
\* f["file_url"].as_str().unwrap() on Rule34 and with a url made of directory,
\* hash and extension elsewhere; items["post"] is filtered on i["file_url"]
gelbooru_map_posts(items, board, shape) ==
    IF shape = "post"
    THEN [res |-> "ok", list |-> map_posts(items)]
    ELSE LET with_hash == SelectSeq(items, LAMBDA f : f.hash)
         IN IF board = "rule34" /\ \E k \in DOMAIN with_hash : ~with_hash[k].file_url
            THEN [res |-> "panic", list |-> <<>>]
            ELSE [res |-> "ok", list |-> [k \in 1..Len(with_hash) |-> with_hash[k].post]]

\* Vec::sort with Ord for Post (by id, stable)
RECURSIVE sort(_)
sort(s) ==
    IF s = <<>> THEN <<>>
    ELSE LET rest == sort(SubSeq(s, 1, Len(s) - 1))
             x == s[Len(s)]
             before == SelectSeq(rest, LAMBDA c : c.id <= x.id)
             after == SelectSeq(rest, LAMBDA c : c.id > x.id)
         IN before \o <<x>> \o after

\* Vec::reverse
reverse(s) == [k \in 1..Len(s) |-> s[Len(s) + 1 - k]]

\* fvec.sort(); fvec.reverse();
sort_reverse(s) == reverse(sort(s))

\* page + n, or page, as the position requested
Position(p, sp) == IF sp = None THEN p ELSE p + (CHOOSE n \in sp : TRUE)

\* if let Some(num) = limit { if len >= num { break } }
LimitReached(len, lim) == lim # None /\ len >= (CHOOSE num \in lim : TRUE)

ExtIdle ==
    /\ extractor = "danbooru"
    /\ ext_tags = <<>>
    /\ start_page = None
    /\ search_limit = None
    /\ epc = "off"
    /\ page = 1
    /\ fvec = <<>>
    /\ has_posts = FALSE
    /\ total_posts_sent = 0
    /\ sender_channel = <<>>
    /\ searchRes = "none"
    /\ fetchLog = <<>>
    /\ slept = {}
    /\ post_counter = None
    /\ counter_queue = 0
    /\ unsent = <<>>

\* the extraction ends with an error (or a panic): nothing is returned
Abort(err) ==
    /\ searchRes' = err
    /\ epc' = "done"
    /\ UNCHANGED <<page, fvec, has_posts, total_posts_sent, sender_channel,
                   total_removed, post_queue>>

\* Ok(PostQueue { posts: l, .. })
Return(l) ==
    /\ searchRes' = "Ok"
    /\ epc' = "done"
    /\ fvec' = l
    /\ post_queue' = l

\* what no step of an extraction touches
ExtFrame == <<list, user_blacklist, imageboard, limit, cbz, sim_downloads,
              disable_blacklist, save_as_id, filterVars, posts, safe_mode,
              download_ratings, pageLog, authVars, dlVars, mainPc, mainRes, update,
              last_post, marker, resumeLog, extractor, ext_tags, start_page,
              search_limit, eqVars>>

\* a loop that requests the next position without counting the page
NextPage_same_page(l) ==
    /\ page' = page
    /\ fvec' = l
    /\ UNCHANGED <<epc, searchRes, post_queue>>

\* the loop goes on with the next page
NextPage(l) ==
    /\ page' = page + 1
    /\ fvec' = l
    /\ UNCHANGED <<epc, searchRes, post_queue>>

\* BlacklistFilter::init(..).await? / BlacklistFilter::new(..).await? before the
\* loop: reads, and if need be creates, the global blacklist file
InitBlacklist ==
    LET g == GlobalBlacklist_get(gblFile)
    IN /\ gblFile' = g.file
       /\ IF g.ok
          THEN /\ epc' = "fetch"
               /\ UNCHANGED <<page, fvec, has_posts, total_posts_sent, sender_channel,
                              total_removed, post_queue, searchRes>>
          ELSE Abort("BlacklistError")

\* the BlacklistFilter the loop of this extractor holds
LoopFilter ==
    BlacklistFilter_init(ExtractorBoard(extractor),
                         IF extractor = "danbooru" THEN user_blacklist ELSE {},
                         IF extractor = "danbooru"
                         THEN (IF safe_mode THEN {"Safe"} ELSE {})
                         ELSE download_ratings,
                         disable_blacklist, gblFile)

\* a validation that sends the count request before it looks at the tags
DanbooruValidate_count_first ==
    /\ extractor = "danbooru"
    /\ epc = "validate"
    /\ UNCHANGED <<ExtFrame, slept, counterVars>>
    /\ \E resp \in CountResponses :
         /\ fetchLog' = Append(fetchLog, Request("count", 0, resp))
         /\ IF Len(ext_tags) > 2
            THEN Abort("TooManyTags") /\ gblFile' = gblFile
            ELSE IF resp.res = "conn"
            THEN Abort("ConnectionError") /\ gblFile' = gblFile
            ELSE IF resp.res = "invalid"
            THEN Abort("InvalidServerResponse") /\ gblFile' = gblFile
            ELSE IF resp.n = 0
            THEN Abort("ZeroPosts") /\ gblFile' = gblFile
            ELSE InitBlacklist

\* DanbooruExtractor::full_search up to the loop: validate_tags (at most 2
\* tags, then the count request) and BlacklistFilter::init
DanbooruValidate ==
    /\ extractor = "danbooru"
    /\ epc = "validate"
    /\ UNCHANGED <<ExtFrame, slept, counterVars>>
    /\ IF Len(ext_tags) > 2
       THEN /\ Abort("TooManyTags")
            /\ UNCHANGED <<fetchLog, gblFile>>
       ELSE \E resp \in CountResponses :
              /\ fetchLog' = Append(fetchLog, Request("count", 0, resp))
              /\ IF resp.res = "conn"
                 THEN Abort("ConnectionError") /\ gblFile' = gblFile
                 ELSE IF resp.res = "invalid"
                 THEN \* count["counts"]["posts"].as_u64() is None
                      Abort("InvalidServerResponse") /\ gblFile' = gblFile
                 ELSE IF resp.n = 0
                 THEN Abort("ZeroPosts") /\ gblFile' = gblFile
                 ELSE InitBlacklist

\* DanbooruExtractor::full_search, one turn of the loop; the turn that breaks
\* also sorts and returns
DanbooruFetch ==
    /\ extractor = "danbooru"
    /\ epc = "fetch"
    /\ UNCHANGED <<ExtFrame, slept, counterVars>>
    /\ UNCHANGED <<gblFile, has_posts, total_posts_sent, sender_channel>>
    /\ \E resp \in PageResponses :
         /\ fetchLog' = Append(fetchLog, Request("page", Position(page, start_page), resp))
         /\ IF resp.res = "conn"
            THEN Abort("ConnectionError")
            ELSE IF resp.res = "invalid"
            THEN \* post_array.as_array().unwrap()
                 Abort("panic")
            ELSE LET got == map_posts(resp.items)
                     r == DanbooruPageFilter(LoopFilter, got, disable_blacklist, safe_mode)
                     acc == fvec \o r.list
                 IN IF Len(got) = 0
                    THEN /\ Return(sort_reverse(fvec))
                         /\ UNCHANGED <<page, total_removed>>
                    ELSE /\ total_removed' = total_removed + r.removed
                         /\ IF LimitReached(Len(acc), search_limit) \/ page = MaxPages
                            THEN Return(sort_reverse(acc)) /\ page' = page
                            ELSE NextPage(acc)

\* MoebooruExtractor::full_search up to the loop: BlacklistFilter::new
MoebooruInit ==
    /\ extractor = "moebooru"
    /\ epc = "validate"
    /\ UNCHANGED <<ExtFrame, slept, counterVars>>
    /\ fetchLog' = fetchLog
    /\ InitBlacklist

\* MoebooruExtractor::full_search, one turn of the loop; the turn that breaks
\* also checks for an empty result, sorts and returns
MoebooruFetch ==
    /\ extractor = "moebooru"
    /\ epc = "fetch"
    /\ UNCHANGED <<ExtFrame, slept, counterVars>>
    /\ UNCHANGED <<gblFile, has_posts, total_posts_sent, sender_channel>>
    /\ \E resp \in PageResponses :
         /\ fetchLog' = Append(fetchLog, Request("page", Position(page, start_page), resp))
         /\ IF resp.res = "conn"
            THEN Abort("ConnectionError")
            ELSE IF resp.res = "invalid"
            THEN \* serde_json::from_str::<Vec<KonachanPost>>(..).unwrap()
                 Abort("panic")
            ELSE LET got == map_posts(resp.items)
                     r == E621PageFilter(LoopFilter, got, disable_blacklist, download_ratings)
                     acc == IF Len(got) = 0 THEN fvec ELSE fvec \o r.list
                     stop == \/ Len(got) = 0
                             \/ LimitReached(Len(acc), search_limit)
                             \/ Len(got) < MaxItems
                             \/ page = MaxPages
                 IN /\ total_removed' = IF Len(got) = 0 THEN total_removed
                                        ELSE total_removed + r.removed
                    /\ IF ~stop
                       THEN NextPage(acc)
                       ELSE IF acc = <<>>
                       THEN /\ searchRes' = "ZeroPosts"
                            /\ epc' = "done"
                            /\ UNCHANGED <<page, fvec, post_queue>>
                       ELSE Return(sort_reverse(acc)) /\ page' = page

\* GelbooruExtractor::full_search up to the loop: validate_tags
GelbooruValidate ==
    /\ extractor = "gelbooru"
    /\ epc = "validate"
    /\ UNCHANGED <<ExtFrame, slept, counterVars>>
    /\ gblFile' = gblFile
    /\ \E resp \in CountResponses :
         /\ fetchLog' = Append(fetchLog, Request("count", 0, resp))
         /\ IF resp.res = "conn"
            THEN Abort("ConnectionError")
            ELSE IF resp.res = "invalid"
            THEN Abort("InvalidServerResponse")
            ELSE IF resp.n = 0
            THEN \* res.is_empty()
                 Abort("ZeroPosts")
            ELSE /\ epc' = "fetch"
                 /\ UNCHANGED <<page, fvec, has_posts, total_posts_sent, sender_channel,
                                total_removed, post_queue, searchRes>>

\* GelbooruExtractor::full_search, one turn of the loop; the turn that breaks
\* also returns
GelbooruFetch ==
    /\ extractor = "gelbooru"
    /\ epc = "fetch"
    /\ UNCHANGED <<ExtFrame, counterVars>>
    /\ UNCHANGED <<gblFile, has_posts, total_posts_sent, sender_channel, total_removed>>
    /\ \E resp \in PageResponses, shape \in ResponseShapes :
         /\ fetchLog' = Append(fetchLog,
                               Request("page", Position(page, start_page) - 1, resp))
         /\ IF resp.res = "conn"
            THEN Abort("ConnectionError") /\ slept' = slept
            ELSE IF resp.res = "invalid"
            THEN Abort("InvalidServerResponse") /\ slept' = slept
            ELSE LET mapped == gelbooru_map_posts(resp.items, imageboard, shape)
                     got == mapped.list
                     acc == fvec \o got
                     stop == \/ Len(got) = 0
                             \/ LimitReached(Len(acc), search_limit)
                             \/ Len(got) < MaxItems
                             \/ page = MaxPages
                 IN IF mapped.res = "panic"
                    THEN Abort("panic") /\ slept' = slept
                    ELSE IF stop
                    THEN Return(acc) /\ page' = page /\ slept' = slept
                    ELSE \* page += 1; thread::sleep(Duration::from_millis(500))
                         NextPage(acc) /\ slept' = slept \cup {page}

\* E621Extractor / GelbooruExtractor async_fetch up to the loop:
\* BlacklistFilter::new / ::init
AsyncInit ==
    /\ extractor \in {"e621_async", "gelbooru_async"}
    /\ epc = "validate"
    /\ UNCHANGED <<ExtFrame, slept, counterVars>>
    /\ fetchLog' = fetchLog
    /\ InitBlacklist

\* a loop over the page that sends every Post whatever the limit
Sent_whole_page(l, lim) == l

\* the Posts of a filtered page that are sent before the limit stops the loop
\* over the page
Sent(l, lim) ==
    IF lim = None THEN l
    ELSE LET num == CHOOSE n \in lim : TRUE
             room == IF total_posts_sent >= num THEN 0 ELSE num - total_posts_sent
         IN SubSeq(l, 1, IF Len(l) < room THEN Len(l) ELSE room)

\* the post counter is a channel: E621Extractor takes a tokio mpsc Sender<u64>,
\* GelbooruExtractor an Arc<AtomicU64>
CounterIsChannel == extractor = "e621_async" /\ post_counter # None

\* Sender::send(1).await completes when the channel holds fewer messages than
\* its capacity
CounterHasRoom(queued) == queued < (CHOOSE c \in post_counter : TRUE)

\* the end of a turn of the loop, sent Posts after the start of the run: the
\* limit, the page cap, or page += 1 and the sleep
EndOfTurn(sent) ==
    IF LimitReached(sent, search_limit) \/ page = MaxPages
    THEN /\ searchRes' = "Ok"
         /\ epc' = "done"
         /\ page' = page
         /\ slept' = slept
    ELSE \* page += 1; sleep(Duration::from_millis(500)).await
         /\ page' = page + 1
         /\ slept' = slept \cup {page}
         /\ epc' = "fetch"
         /\ searchRes' = searchRes

\* for i in list { sender_channel.send(i)?; total_posts_sent += 1; counter.. }
\* over the Posts l, with queued messages in the channel of the counter: each
\* Post is sent and then reported; a report that finds the channel full waits
SendPosts(l, queued) ==
    IF l = <<>>
    THEN /\ unsent' = <<>>
         /\ counter_queue' = queued
         /\ UNCHANGED <<sender_channel, total_posts_sent>>
         /\ EndOfTurn(total_posts_sent)
    ELSE IF ~CounterIsChannel
    THEN \* UnboundedSender::send and AtomicU64::fetch_add return at once
         /\ sender_channel' = sender_channel \o l
         /\ total_posts_sent' = total_posts_sent + Len(l)
         /\ unsent' = <<>>
         /\ counter_queue' = queued
         /\ EndOfTurn(total_posts_sent + Len(l))
    ELSE LET cap == CHOOSE c \in post_counter : TRUE
             room == cap - queued
         IN IF Len(l) <= room
            THEN /\ sender_channel' = sender_channel \o l
                 /\ total_posts_sent' = total_posts_sent + Len(l)
                 /\ unsent' = <<>>
                 /\ counter_queue' = queued + Len(l)
                 /\ EndOfTurn(total_posts_sent + Len(l))
            ELSE \* the Post after the last one that found room is sent, and
                 \* its counter.send(1).await waits
                 /\ sender_channel' = sender_channel \o SubSeq(l, 1, room + 1)
                 /\ total_posts_sent' = total_posts_sent + room + 1
                 /\ unsent' = SubSeq(l, room + 2, Len(l))
                 /\ counter_queue' = cap
                 /\ epc' = "blocked"
                 /\ UNCHANGED <<page, searchRes, slept>>

\* async_fetch of E621Extractor and of GelbooruExtractor, one turn of the loop:
\* the page is fetched, filtered and sent Post by Post on the channel
AsyncFetch ==
    /\ extractor \in {"e621_async", "gelbooru_async"}
    /\ epc = "fetch"
    /\ UNCHANGED ExtFrame
    /\ UNCHANGED <<gblFile, fvec, post_queue, post_counter>>
    /\ \E resp \in PageResponses :
         /\ fetchLog' = Append(fetchLog, Request("page", Position(page, start_page), resp))
         /\ IF resp.res # "ok"
            THEN \* self.get_post_list(position).await?
                 /\ searchRes' = IF resp.res = "conn" THEN "ConnectionError"
                                 ELSE "InvalidServerResponse"
                 /\ epc' = "done"
                 /\ UNCHANGED <<page, has_posts, total_posts_sent, sender_channel,
                                total_removed, slept, counter_queue, unsent>>
            ELSE LET got == map_posts(resp.items)
                     r == E621PageFilter(LoopFilter, got, disable_blacklist, download_ratings)
                     out == Sent(r.list, search_limit)
                 IN IF Len(got) = 0
                    THEN /\ searchRes' = IF has_posts THEN "Ok" ELSE "ZeroPosts"
                         /\ epc' = "done"
                         /\ UNCHANGED <<page, has_posts, total_posts_sent, sender_channel,
                                        total_removed, slept, counter_queue, unsent>>
                    ELSE /\ total_removed' = total_removed + r.removed
                         /\ has_posts' = (has_posts \/ r.list # <<>>)
                         /\ SendPosts(out, counter_queue)

\* the consumer of the post counter takes a message from the channel
CounterRecv ==
    /\ counter_queue > 0
    /\ counter_queue' = counter_queue - 1
    /\ UNCHANGED <<extractor, ext_tags, start_page, search_limit, epc, page, fvec,
                   has_posts, total_posts_sent, sender_channel, searchRes, fetchLog,
                   slept, post_counter, unsent>>
    /\ UNCHANGED <<queueVars, filterVars, pageVars, authVars, dlVars, mainVars, eqVars>>

\* the counter.send(1).await that waited completes, and the loop over the page
\* goes on
AsyncResume ==
    /\ epc = "blocked"
    /\ CounterHasRoom(counter_queue)
    /\ UNCHANGED ExtFrame
    /\ UNCHANGED <<gblFile, fvec, post_queue, post_counter, fetchLog, has_posts,
                   total_removed>>
    /\ SendPosts(unsent, counter_queue + 1)

----------------------------------------------------------------------------
(* GelbooruExtractor: full_search and async_fetch run against one source *)

\* the source answers the k-th page request of a run with pages[k]
EqIdle ==
    /\ source_script = [count |-> Response("ok", 1, <<>>), pages |-> <<>>]
    /\ full_run = None
    /\ async_run = None

\* how a run ended: the result, the Posts returned or sent, the requests made
Outcome(res, plist, log) == [res |-> res, posts |-> plist, requests |-> log]

\* GelbooruExtractor::full_search, the loop from its turn pg on
RECURSIVE full_search_loop(_, _, _)
full_search_loop(pg, acc, log) ==
    LET position == Position(pg, start_page) - 1
        resp == source_script.pages[pg]
        asked == Append(log, Request("page", position, resp))
    IN IF resp.res = "conn"
       THEN Outcome("ConnectionError", <<>>, asked)
       ELSE IF resp.res = "invalid"
       THEN Outcome("InvalidServerResponse", <<>>, asked)
       ELSE LET got == map_posts(resp.items)
                grown == acc \o got
            IN IF \/ Len(got) = 0
                  \/ LimitReached(Len(grown), search_limit)
                  \/ Len(got) < MaxItems
                  \/ pg = MaxPages
               THEN Outcome("Ok", grown, asked)
               ELSE full_search_loop(pg + 1, grown, asked)

\* GelbooruExtractor::full_search: validate_tags, then the loop
gelbooru_full_search ==
    LET resp == source_script.count
        asked == <<Request("count", 0, resp)>>
    IN IF resp.res = "conn"
       THEN Outcome("ConnectionError", <<>>, asked)
       ELSE IF resp.res = "invalid"
       THEN Outcome("InvalidServerResponse", <<>>, asked)
       ELSE IF resp.n = 0
       THEN Outcome("ZeroPosts", <<>>, asked)
       ELSE full_search_loop(1, <<>>, asked)

\* GelbooruExtractor::async_fetch, the loop from its turn pg on; sent is what
\* went onto the channel so far
RECURSIVE async_fetch_loop(_, _, _, _, _)
async_fetch_loop(bf, pg, has, sent, log) ==
    LET position == Position(pg, start_page)
        resp == source_script.pages[pg]
        asked == Append(log, Request("page", position, resp))
    IN IF resp.res = "conn"
       THEN Outcome("ConnectionError", sent, asked)
       ELSE IF resp.res = "invalid"
       THEN Outcome("InvalidServerResponse", sent, asked)
       ELSE LET got == map_posts(resp.items)
                r == E621PageFilter(bf, got, disable_blacklist, download_ratings)
                room == IF search_limit = None THEN Len(r.list)
                        ELSE LET num == CHOOSE n \in search_limit : TRUE
                             IN IF Len(sent) >= num THEN 0 ELSE num - Len(sent)
                out == SubSeq(r.list, 1, IF Len(r.list) < room THEN Len(r.list) ELSE room)
                grown == sent \o out
            IN IF Len(got) = 0
               THEN Outcome(IF has THEN "Ok" ELSE "ZeroPosts", sent, asked)
               ELSE IF LimitReached(Len(grown), search_limit) \/ pg = MaxPages
               THEN Outcome("Ok", grown, asked)
               ELSE async_fetch_loop(bf, pg + 1, has \/ r.list # <<>>, grown, asked)

\* GelbooruExtractor::async_fetch: BlacklistFilter::init, then the loop
gelbooru_async_fetch ==
    LET bf == BlacklistFilter_init("gelbooru", {}, download_ratings, disable_blacklist,
                                   gblFile)
    IN IF ~bf.ok
       THEN Outcome("BlacklistError", <<>>, <<>>)
       ELSE async_fetch_loop(bf, 1, FALSE, <<>>, <<>>)

\* full_search is run against the source
RunFullSearch ==
    /\ full_run = None
    /\ source_script.pages # <<>>
    /\ full_run' = Some(gelbooru_full_search)
    /\ UNCHANGED <<source_script, async_run>>
    /\ UNCHANGED <<queueVars, filterVars, pageVars, authVars, dlVars, mainVars, extVars>>

\* async_fetch is run against the source
RunAsyncFetch ==
    /\ async_run = None
    /\ source_script.pages # <<>>
    /\ async_run' = Some(gelbooru_async_fetch)
    /\ UNCHANGED <<source_script, full_run>>
    /\ UNCHANGED <<queueVars, filterVars, pageVars, authVars, dlVars, mainVars, extVars>>

----------------------------------------------------------------------------
(* Files, bodies and digests *)

\* md5::compute followed by format!("{:x}"): the digest of a byte sequence.
\* Bytes are 1 or 2; the digest is injective on the sequences used here.
RECURSIVE Md5(_)
Md5(bytes) ==
    IF bytes = <<>> THEN 0 ELSE Head(bytes) + 2 * Md5(Tail(bytes))

\* the body the server holds for a Post: the bytes whose digest the API announced
Body(d) ==
    CASE d.md5 = 1 -> <<1>>
      [] d.md5 = 2 -> <<2>>
      [] d.md5 = 5 -> <<1, 2>>

\* the ways bytes_stream() may cut a body into chunks
RECURSIVE Chunkings(_)
Chunkings(b) ==
    IF Len(b) <= 1 THEN {<<b>>}
    ELSE {<<b>>} \cup
         UNION {{<<SubSeq(b, 1, k)>> \o r : r \in Chunkings(SubSeq(b, k + 1, Len(b)))} :
                  k \in 1..(Len(b) - 1)}

\* res.content_length().unwrap_or_default(): the length the response declares,
\* or 0 when it declares none
ContentLengths(b) == {Len(b), 0}

\* a BufWriter that keeps everything written to it in its buffer
BufWriter_keeps_all(b, capacity, chunk) == b \o chunk

\* BufWriter::poll_write on a buffer b of the given capacity: the buffer is
\* flushed to the inner Vec when the chunk does not fit any more, and a chunk
\* of at least the capacity goes to the inner Vec past the buffer; the result
\* is what buffer() then returns
BufWriter_write(b, capacity, chunk) ==
    LET held == IF Len(b) + Len(chunk) > capacity THEN <<>> ELSE b
    IN IF Len(chunk) >= capacity THEN held ELSE held \o chunk

\* bytes left in a file by something else than a completed download of the Post
Stale == <<1, 1>>

\* output.join(format!("{}.{}", name, extension)), name the id or the md5
FileName(d, name_id) == IF name_id THEN <<"id", d.id>> ELSE <<"md5", d.md5>>

AllNames == {<<"id", d.id>> : d \in PostPool} \cup {<<"md5", d.md5>> : d \in PostPool}

\* <output>/<imageboard> and <output>/<imageboard>/<tags>
BoardDir == "imageboard"
TagDir == "imageboard/tags"

----------------------------------------------------------------------------
(* Queue::download, Post::get *)

\* a get not yet started; removed records that its check deleted a stale file
NewTask == [pc |-> "pending", out |-> "none", chunks |-> <<>>, buf |-> <<>>, cap |-> 0,
            fd |-> 0,
            removed |-> FALSE]

\* ProgressCounter::initialize
ProgressCounter_initialize == [main |-> 0, total |-> 0, downloaded |-> 0]

\* Queue.tag_s: posts.tags.join(" ")
tag_s == "1girl solo"

\* the ZipWriter: the entries of the archive, the calls that wrote them in
\* the order they were made (by: the list position of the Post, 0 for
\* Queue::download itself), the comment, and whether finish() was called
NoZip == [open |-> FALSE, entries |-> <<>>, stream |-> <<>>, comment |-> None,
          finished |-> FALSE]

\* one call on the ZipWriter
ZipCall(op, name, by) == [op |-> op, name |-> name, by |-> by]

\* the name of the archive entry of a Post: "{rating}/{md5}.{extension}"
EntryName(d) == <<d.rating, d.md5, d.extension>>

ZipEntry(kind, name, plist, bytes) ==
    [kind |-> kind, name |-> name, posts |-> plist, bytes |-> bytes]

DlIdle ==
    /\ dl = "idle"
    /\ task = <<>>
    /\ counters = ProgressCounter_initialize
    /\ paths = [n \in AllNames |-> 0]
    /\ inodes = <<>>
    /\ dirs = {}
    /\ zip = NoZip
    /\ requested = {}

\* if let Some(max) = self.limit { if max < l_len { self.list = self.list[0..max] } }
Truncate(l, lim) ==
    IF lim # None /\ (CHOOSE max \in lim : TRUE) < Len(l)
    THEN SubSeq(l, 1, CHOOSE max \in lim : TRUE)
    ELSE l

\* the futures buffer_unordered holds: created by d.get(..) and not yet complete
InFlight == {i \in DOMAIN task : task[i].pc \notin {"pending", "done"}}

Finished(t, outcome) ==
    [t EXCEPT !.pc = "done", !.out = outcome, !.chunks = <<>>, !.cap = 0]

\* Queue::download up to the start of the stream: filter, limit, counters,
\* output directory and, for a .cbz, the archive with its manifest
DownloadBegin ==
    /\ dl = "idle"
    /\ mainPc \in {"off", "download"}
    /\ LET r == blacklist_filter(list, user_blacklist, imageboard, gblFile,
                                 disable_blacklist)
           l == Truncate(r.list, limit)
       IN /\ gblFile' = r.file
          /\ filterLog' = Append(filterLog,
                [input |-> list, res |-> r.res, removed |-> r.removed,
                 output |-> r.list, disable |-> disable_blacklist])
          /\ IF r.res = "Err"
             THEN /\ list' = r.list
                  /\ dl' = "failed"
                  /\ UNCHANGED <<task, counters, dirs, zip>>
             ELSE /\ list' = l
                  /\ dl' = "running"
                  /\ task' = [i \in 1..Len(l) |-> NewTask]
                  /\ counters' = ProgressCounter_initialize
                  /\ IF cbz
                     THEN /\ dirs' = dirs \cup {BoardDir}
                          /\ zip' = [open |-> TRUE,
                                     entries |->
                                       <<ZipEntry("dir", "Safe", <<>>, <<>>),
                                         ZipEntry("dir", "Questionable", <<>>, <<>>),
                                         ZipEntry("dir", "Explicit", <<>>, <<>>),
                                         ZipEntry("dir", "Unknown", <<>>, <<>>),
                                         ZipEntry("manifest", "00_summary.json", l, <<>>)>>,
                                     stream |->
                                       <<ZipCall("add_directory", "Safe", 0),
                                         ZipCall("add_directory", "Questionable", 0),
                                         ZipCall("add_directory", "Explicit", 0),
                                         ZipCall("add_directory", "Unknown", 0),
                                         ZipCall("start_file", "00_summary.json", 0),
                                         ZipCall("write_all", "00_summary.json", 0)>>,
                                     comment |-> None, finished |-> FALSE]
                     ELSE /\ dirs' = dirs \cup {BoardDir, TagDir}
                          /\ zip' = zip
    /\ UNCHANGED <<user_blacklist, imageboard, limit, cbz, sim_downloads,
                   disable_blacklist, save_as_id, paths, inodes, requested>>
    /\ UNCHANGED <<pageVars, authVars, mainVars, extVars, eqVars>>

\* an Admit that takes the next Post whatever the number of futures in flight
Admit_unbounded(i) ==
    /\ dl = "running"
    /\ i \in DOMAIN task
    /\ task[i].pc = "pending"
    /\ \A j \in 1..(i - 1) : task[j].pc # "pending"
    /\ LET exists == ~cbz /\ paths[FileName(list[i], save_as_id)] # 0
       IN task' = [task EXCEPT ![i].pc = IF exists THEN "read" ELSE "send"]
    /\ UNCHANGED <<dl, counters, paths, inodes, dirs, zip, requested>>
    /\ UNCHANGED <<queueVars, filterVars, pageVars, authVars, mainVars, extVars, eqVars>>

\* buffer_unordered(self.sim_downloads) takes the next Post of the list while
\* fewer than sim_downloads futures are in flight; the future runs Post::get up
\* to its first await: the file name and output.exists()
Admit(i) ==
    /\ dl = "running"
    /\ i \in DOMAIN task
    /\ task[i].pc = "pending"
    /\ \A j \in 1..(i - 1) : task[j].pc # "pending"
    /\ Cardinality(InFlight) < sim_downloads
    /\ LET exists == ~cbz /\ paths[FileName(list[i], save_as_id)] # 0
       IN task' = [task EXCEPT ![i].pc = IF exists THEN "read" ELSE "send"]
    /\ UNCHANGED <<dl, counters, paths, inodes, dirs, zip, requested>>
    /\ UNCHANGED <<queueVars, filterVars, pageVars, authVars, mainVars, extVars, eqVars>>

\* a check that fetches even though the digest of the file equals the md5
ReadExisting_refetch(i) ==
    /\ dl = "running"
    /\ i \in DOMAIN task
    /\ task[i].pc = "read"
    /\ LET n == FileName(list[i], save_as_id)
       IN IF paths[n] = 0
          THEN /\ task' = [task EXCEPT ![i] = Finished(@, "failed")]
               /\ UNCHANGED counters
          ELSE /\ task' = [task EXCEPT ![i].pc =
                              IF Md5(inodes[paths[n]]) = list[i].md5
                              THEN "send" ELSE "remove"]
               /\ UNCHANGED counters
    /\ UNCHANGED <<dl, paths, inodes, dirs, zip, requested>>
    /\ UNCHANGED <<queueVars, filterVars, pageVars, authVars, mainVars, extVars, eqVars>>

\* Post::check_file_exists after output.exists(): read the file and compare its
\* digest with self.md5; equal: count the Post and bail, so that get skips fetch
ReadExisting(i) ==
    /\ dl = "running"
    /\ i \in DOMAIN task
    /\ task[i].pc = "read"
    /\ LET n == FileName(list[i], save_as_id)
       IN IF paths[n] = 0
          THEN \* read(&output).await? fails: the file is gone
               /\ task' = [task EXCEPT ![i] = Finished(@, "failed")]
               /\ UNCHANGED counters
          ELSE IF Md5(inodes[paths[n]]) = list[i].md5
          THEN /\ task' = [task EXCEPT ![i] = Finished(@, "skipped")]
               /\ counters' = [counters EXCEPT !.main = @ + 1, !.total = @ + 1]
          ELSE /\ task' = [task EXCEPT ![i].pc = "remove"]
               /\ UNCHANGED counters
    /\ UNCHANGED <<dl, paths, inodes, dirs, zip, requested>>
    /\ UNCHANGED <<queueVars, filterVars, pageVars, authVars, mainVars, extVars, eqVars>>

\* fs::remove_file(&output).await? of the file whose digest differs
RemoveStale(i) ==
    /\ dl = "running"
    /\ i \in DOMAIN task
    /\ task[i].pc = "remove"
    /\ LET n == FileName(list[i], save_as_id)
       IN IF paths[n] = 0
          THEN /\ task' = [task EXCEPT ![i] = Finished(@, "failed")]
               /\ UNCHANGED paths
          ELSE /\ paths' = [paths EXCEPT ![n] = 0]
               /\ task' = [task EXCEPT ![i].pc = "send", ![i].removed = TRUE]
    /\ UNCHANGED <<dl, counters, inodes, dirs, zip, requested>>
    /\ UNCHANGED <<queueVars, filterVars, pageVars, authVars, mainVars, extVars, eqVars>>

\* a fetch whose client-error response ends the whole download with an error
Send_aborts_on_4xx(i) ==
    /\ dl = "running"
    /\ i \in DOMAIN task
    /\ task[i].pc = "send"
    /\ requested' = requested \cup {i}
    /\ \/ /\ task' = [task EXCEPT ![i] = Finished(@, "failed")]
          /\ UNCHANGED <<counters, dl>>
       \/ /\ task' = [task EXCEPT ![i] = Finished(@, "client_error")]
          /\ counters' = [counters EXCEPT !.main = @ + 1]
          /\ dl' = "failed"
       \/ /\ \E c \in Chunkings(Body(list[i])), size \in ContentLengths(Body(list[i])) :
               task' = [task EXCEPT ![i].pc = IF cbz THEN "stream" ELSE "open",
                                    ![i].chunks = c,
                                    ![i].cap = IF cbz THEN size ELSE 0]
          /\ UNCHANGED <<counters, dl>>
    /\ UNCHANGED <<paths, inodes, dirs, zip>>
    /\ UNCHANGED <<queueVars, filterVars, pageVars, authVars, mainVars, extVars, eqVars>>

\* Post::fetch: client.get(&self.url).send().await? and the status check
Send(i) ==
    /\ dl = "running"
    /\ i \in DOMAIN task
    /\ task[i].pc = "send"
    /\ requested' = requested \cup {i}
    /\ \/ \* the request fails
          /\ task' = [task EXCEPT ![i] = Finished(@, "failed")]
          /\ UNCHANGED counters
       \/ \* res.status().is_client_error()
          /\ task' = [task EXCEPT ![i] = Finished(@, "client_error")]
          /\ counters' = [counters EXCEPT !.main = @ + 1]
       \/ \* a response whose body arrives in chunks
          /\ \E c \in Chunkings(Body(list[i])), size \in ContentLengths(Body(list[i])) :
               \* BufWriter::with_capacity(size as usize, fvec) in archive mode
               task' = [task EXCEPT ![i].pc = IF cbz THEN "stream" ELSE "open",
                                    ![i].chunks = c,
                                    ![i].cap = IF cbz THEN size ELSE 0]
          /\ UNCHANGED counters
    /\ UNCHANGED <<dl, paths, inodes, dirs, zip>>
    /\ UNCHANGED <<queueVars, filterVars, pageVars, authVars, mainVars, extVars, eqVars>>

\* loose mode: OpenOptions::new().append(true).create(true).open(output)
Open(i) ==
    /\ dl = "running"
    /\ i \in DOMAIN task
    /\ task[i].pc = "open"
    /\ LET n == FileName(list[i], save_as_id)
       IN IF paths[n] = 0
          THEN /\ inodes' = Append(inodes, <<>>)
               /\ paths' = [paths EXCEPT ![n] = Len(inodes) + 1]
               /\ task' = [task EXCEPT ![i].pc = "stream", ![i].fd = Len(inodes) + 1]
          ELSE /\ task' = [task EXCEPT ![i].pc = "stream", ![i].fd = paths[n]]
               /\ UNCHANGED <<paths, inodes>>
    /\ UNCHANGED <<dl, counters, dirs, zip, requested>>
    /\ UNCHANGED <<queueVars, filterVars, pageVars, authVars, mainVars, extVars, eqVars>>

\* one Ok(chunk) of the stream: appended to the file, or to the buffer of the
\* archive entry
Chunk(i) ==
    /\ dl = "running"
    /\ i \in DOMAIN task
    /\ task[i].pc = "stream"
    /\ task[i].chunks # <<>>
    /\ IF cbz
       THEN /\ task' = [task EXCEPT ![i].buf = BufWriter_write(@, task[i].cap,
                                                                 Head(task[i].chunks)),
                                    ![i].chunks = Tail(@)]
            /\ UNCHANGED inodes
       ELSE /\ inodes' = [inodes EXCEPT ![task[i].fd] = @ \o Head(task[i].chunks)]
            /\ task' = [task EXCEPT ![i].chunks = Tail(@)]
    /\ UNCHANGED <<dl, counters, paths, dirs, zip, requested>>
    /\ UNCHANGED <<queueVars, filterVars, pageVars, authVars, mainVars, extVars, eqVars>>

\* the awaited open, chunk or write returns Err, or the ZipWriter refuses the
\* entry (start_file(..)?): fetch bails out
Fail(i) ==
    /\ dl = "running"
    /\ i \in DOMAIN task
    /\ \/ task[i].pc = "open"
       \/ task[i].pc = "stream" /\ task[i].chunks # <<>>
       \/ task[i].pc = "stream" /\ task[i].chunks = <<>> /\ cbz
    /\ task' = [task EXCEPT ![i] = Finished(@, "failed")]
    /\ UNCHANGED <<dl, counters, paths, inodes, dirs, zip, requested>>
    /\ UNCHANGED <<queueVars, filterVars, pageVars, authVars, mainVars, extVars, eqVars>>

\* an archive entry named after the id of the Post
Complete_names_by_id(i) ==
    /\ dl = "running"
    /\ i \in DOMAIN task
    /\ task[i].pc = "stream"
    /\ task[i].chunks = <<>>
    /\ LET name == <<list[i].rating, list[i].id, list[i].extension>>
       IN IF cbz
          THEN zip' = [zip EXCEPT
                          !.entries = Append(@, ZipEntry("media", name, <<>>, task[i].buf)),
                          !.stream = @ \o <<ZipCall("start_file", name, i),
                                            ZipCall("write_all", name, i)>>]
          ELSE zip' = zip
    /\ counters' = [main |-> counters.main + 1, total |-> counters.total + 1,
                    downloaded |-> counters.downloaded + 1]
    /\ task' = [task EXCEPT ![i] = Finished(@, "downloaded")]
    /\ UNCHANGED <<dl, paths, inodes, dirs, requested>>
    /\ UNCHANGED <<queueVars, filterVars, pageVars, authVars, mainVars, extVars, eqVars>>

\* an archive entry written in two turns, start_file in the first and the
\* body in the second, the ZipWriter being free in between
Complete_in_two_turns(i) ==
    /\ dl = "running"
    /\ i \in DOMAIN task
    /\ task[i].pc = "stream"
    /\ task[i].chunks = <<>>
    /\ IF cbz /\ task[i].fd = 0
       THEN /\ zip' = [zip EXCEPT
                          !.stream = Append(@, ZipCall("start_file", EntryName(list[i]), i))]
            /\ task' = [task EXCEPT ![i].fd = 1]
            /\ UNCHANGED counters
       ELSE /\ IF cbz
               THEN zip' = [zip EXCEPT
                               !.entries = Append(@, ZipEntry("media", EntryName(list[i]),
                                                              <<>>, task[i].buf)),
                               !.stream = Append(@, ZipCall("write_all",
                                                            EntryName(list[i]), i))]
               ELSE zip' = zip
            /\ counters' = [main |-> counters.main + 1, total |-> counters.total + 1,
                            downloaded |-> counters.downloaded + 1]
            /\ task' = [task EXCEPT ![i] = Finished(@, "downloaded")]
    /\ UNCHANGED <<dl, paths, inodes, dirs, requested>>
    /\ UNCHANGED <<queueVars, filterVars, pageVars, authVars, mainVars, extVars, eqVars>>

\* counters without synchronisation: the increments of a get that completes
\* while another get is in flight are lost
Complete_lost_update(i) ==
    /\ dl = "running"
    /\ i \in DOMAIN task
    /\ task[i].pc = "stream"
    /\ task[i].chunks = <<>>
    /\ IF cbz
       THEN zip' = [zip EXCEPT
                       !.entries = Append(@, ZipEntry("media", EntryName(list[i]),
                                                      <<>>, task[i].buf)),
                       !.stream = @ \o <<ZipCall("start_file", EntryName(list[i]), i),
                                         ZipCall("write_all", EntryName(list[i]), i)>>]
       ELSE zip' = zip
    /\ IF InFlight = {i}
       THEN counters' = [main |-> counters.main + 1, total |-> counters.total + 1,
                         downloaded |-> counters.downloaded + 1]
       ELSE counters' = counters
    /\ task' = [task EXCEPT ![i] = Finished(@, "downloaded")]
    /\ UNCHANGED <<dl, paths, inodes, dirs, requested>>
    /\ UNCHANGED <<queueVars, filterVars, pageVars, authVars, mainVars, extVars, eqVars>>

\* the stream has ended: the archive entry is written under the lock of the
\* ZipWriter, then the counters are incremented
Complete(i) ==
    /\ dl = "running"
    /\ i \in DOMAIN task
    /\ task[i].pc = "stream"
    /\ task[i].chunks = <<>>
    /\ IF cbz
       THEN zip' = [zip EXCEPT
                       !.entries = Append(@, ZipEntry("media", EntryName(list[i]),
                                                      <<>>, task[i].buf)),
                       !.stream = @ \o <<ZipCall("start_file", EntryName(list[i]), i),
                                         ZipCall("write_all", EntryName(list[i]), i)>>]
       ELSE zip' = zip
    /\ counters' = [main |-> counters.main + 1, total |-> counters.total + 1,
                    downloaded |-> counters.downloaded + 1]
    /\ task' = [task EXCEPT ![i] = Finished(@, "downloaded")]
    /\ UNCHANGED <<dl, paths, inodes, dirs, requested>>
    /\ UNCHANGED <<queueVars, filterVars, pageVars, authVars, mainVars, extVars, eqVars>>

\* a download that finalises the archive without waiting for the stream
DownloadEnd_early ==
    /\ dl = "running"
    /\ dl' = "done"
    /\ IF cbz
       THEN zip' = [zip EXCEPT !.comment = Some([website |-> imageboard,
                                                 tags |-> tag_s,
                                                 posts |-> Len(list)]),
                               !.finished = TRUE]
       ELSE zip' = zip
    /\ UNCHANGED <<task, counters, paths, inodes, dirs, requested>>
    /\ UNCHANGED <<queueVars, filterVars, pageVars, authVars, mainVars, extVars, eqVars>>

\* collect() has every result: the archive is finalised and download returns Ok
DownloadEnd ==
    /\ dl = "running"
    /\ \A i \in DOMAIN task : task[i].pc = "done"
    /\ dl' = "done"
    /\ IF cbz
       THEN zip' = [zip EXCEPT !.comment = Some([website |-> imageboard,
                                                 tags |-> tag_s,
                                                 posts |-> Len(list)]),
                               !.finished = TRUE]
       ELSE zip' = zip
    /\ UNCHANGED <<task, counters, paths, inodes, dirs, requested>>
    /\ UNCHANGED <<queueVars, filterVars, pageVars, authVars, mainVars, extVars, eqVars>>

----------------------------------------------------------------------------
(* Persisted files: bincode serialisation inside a zstd frame *)

\* bincode::serialize: the bytes of a value
serialize(v) == [bincode |-> TRUE, value |-> v]

\* bincode::deserialize: Ok(value) for bytes that encode one, Err otherwise
deserialize(bytes) ==
    IF bytes.bincode THEN [ok |-> TRUE, value |-> Some(bytes.value)]
    ELSE [ok |-> FALSE, value |-> None]

\* a compression that loses the end of its input: the frame opens, but its
\* content no longer decodes to a value
encode_all_truncated(bytes) ==
    [zstd |-> TRUE, bytes |-> [bincode |-> FALSE, value |-> bytes.value]]

\* zstd::encode_all: a frame holding the bytes
encode_all(bytes) == [zstd |-> TRUE, bytes |-> bytes]

\* zstd::decode_all: Ok(bytes) for a well-formed frame, Err otherwise
decode_all(data) ==
    IF data.zstd THEN [ok |-> TRUE, bytes |-> Some(data.bytes)]
    ELSE [ok |-> FALSE, bytes |-> None]

\* a path on disk: absent, or present with its data
Absent(v) == [exists |-> FALSE, data |-> [zstd |-> FALSE, bytes |-> [bincode |-> FALSE, value |-> v]]]
Present(d) == [exists |-> TRUE, data |-> d]

\* data that is no zstd frame, and a frame whose bytes decode to no value
NotAFrame(v) == [zstd |-> FALSE, bytes |-> [bincode |-> FALSE, value |-> v]]
FrameOfJunk(v) == [zstd |-> TRUE, bytes |-> [bincode |-> FALSE, value |-> v]]

----------------------------------------------------------------------------
(* main: resume marker and the call of the queue *)

NoPost == Post(0, 0, "Unknown", {})

MainIdle ==
    /\ mainPc = "off"
    /\ mainRes = "none"
    /\ post_queue = <<>>
    /\ update = FALSE
    /\ last_post = None
    /\ marker = Absent(NoPost)
    /\ resumeLog = None

\* the Post with the lowest id instead of the highest
min_by_key(l) ==
    LET k == CHOOSE a \in 1..Len(l) : \A b \in 1..Len(l) : l[a].id <= l[b].id
    IN l[k]

\* post_queue.posts.iter().max_by_key(|post| post.id): the last Post among
\* those with the highest id
max_by_key(l) ==
    LET k == CHOOSE a \in 1..Len(l) :
                /\ \A b \in 1..Len(l) : l[b].id <= l[a].id
                /\ \A b \in (a + 1)..Len(l) : l[b].id < l[a].id
    IN l[k]

\* a resume step that keeps the Post of the marker itself (>=)
Resume_keeps_marker(l, upd, mk) ==
    IF upd /\ mk.exists
    THEN LET dec == decode_all(mk.data)
         IN IF ~dec.ok
            THEN [res |-> "Err", posts |-> l, marker |-> mk]
            ELSE LET de == deserialize(CHOOSE b \in dec.bytes : TRUE)
                 IN IF ~de.ok
                    THEN [res |-> "Err", posts |-> l, marker |-> mk]
                    ELSE LET post == CHOOSE d \in de.value : TRUE
                         IN [res |-> "Ok",
                             posts |-> SelectSeq(l, LAMBDA c : c.id >= post.id),
                             marker |-> mk]
    ELSE [res |-> "Ok", posts |-> l, marker |-> mk]

\* main.rs 185-199: with --update and an existing marker file, open, decompress
\* and deserialise it (each with `?`) and retain the Posts with a higher id
Resume(l, upd, mk) ==
    IF upd /\ mk.exists
    THEN LET dec == decode_all(mk.data)
         IN IF ~dec.ok
            THEN \* decode_all(dsum)? returns the error from main
                 [res |-> "Err", posts |-> l, marker |-> mk]
            ELSE LET de == deserialize(CHOOSE b \in dec.bytes : TRUE)
                 IN IF ~de.ok
                    THEN \* deserialize::<Post>(..)? returns the error from main
                         [res |-> "Err", posts |-> l, marker |-> mk]
                    ELSE LET post == CHOOSE d \in de.value : TRUE
                         IN [res |-> "Ok",
                             posts |-> SelectSeq(l, LAMBDA c : c.id > post.id),
                             marker |-> mk]
    ELSE [res |-> "Ok", posts |-> l, marker |-> mk]

\* main from the end of the extraction to the call of qw.download
MainStart ==
    /\ mainPc = "extracted"
    /\ IF post_queue = <<>>
       THEN \* max_by_key(..).unwrap() on an empty queue
            /\ mainRes' = "panic"
            /\ mainPc' = "ended"
            /\ UNCHANGED <<last_post, marker, resumeLog, list, post_queue>>
       ELSE LET r == Resume(post_queue, update, marker)
            IN /\ last_post' = Some(max_by_key(post_queue))
               /\ marker' = r.marker
               /\ post_queue' = r.posts
               /\ IF r.res = "Err"
                  THEN /\ mainRes' = "Err"
                       /\ mainPc' = "ended"
                       /\ list' = list
                       /\ resumeLog' = Some([marker |-> marker, extracted |-> post_queue,
                                             res |-> "Err", markerAfter |-> r.marker,
                                             handed |-> None])
                  ELSE IF r.posts = <<>>
                  THEN \* "No posts left to download!"
                       /\ mainRes' = "Ok"
                       /\ mainPc' = "ended"
                       /\ list' = list
                       /\ resumeLog' = Some([marker |-> marker, extracted |-> post_queue,
                                             res |-> "Ok", markerAfter |-> r.marker,
                                             handed |-> None])
                  ELSE \* Queue::new(.., post_queue, ..)
                       /\ mainRes' = mainRes
                       /\ mainPc' = "download"
                       /\ list' = r.posts
                       /\ resumeLog' = Some([marker |-> marker, extracted |-> post_queue,
                                             res |-> "Ok", markerAfter |-> r.marker,
                                             handed |-> Some(r.posts)])
    /\ UNCHANGED <<user_blacklist, imageboard, limit, cbz, sim_downloads,
                   disable_blacklist, save_as_id, gblFile, update>>
    /\ UNCHANGED <<filterVars, pageVars, authVars, dlVars, extVars, eqVars>>

\* a main that writes the marker without waiting for the download to return
MainPersist_without_waiting ==
    /\ mainPc = "download"
    /\ dl \in {"running", "done", "failed"}
    /\ mainPc' = "ended"
    /\ IF dl = "failed"
       THEN /\ mainRes' = "Err"
            /\ marker' = marker
       ELSE IF TagDir \notin dirs
       THEN /\ mainRes' = "Err"
            /\ marker' = marker
       ELSE /\ mainRes' = "Ok"
            /\ marker' = Present(encode_all(serialize(CHOOSE d \in last_post : TRUE)))
    /\ UNCHANGED <<post_queue, update, last_post, resumeLog>>
    /\ UNCHANGED <<queueVars, filterVars, pageVars, authVars, dlVars, extVars, eqVars>>

\* main after qw.download(..).await?: the marker is written with the Post that
\* had the highest id
MainPersist ==
    /\ mainPc = "download"
    /\ dl \in {"done", "failed"}
    /\ mainPc' = "ended"
    /\ IF dl = "failed"
       THEN /\ mainRes' = "Err"
            /\ marker' = marker
       ELSE IF TagDir \notin dirs
       THEN \* File::create(&odir)? : the directory of the marker does not exist
            /\ mainRes' = "Err"
            /\ marker' = marker
       ELSE /\ mainRes' = "Ok"
            /\ marker' = Present(encode_all(serialize(CHOOSE d \in last_post : TRUE)))
    /\ UNCHANGED <<post_queue, update, last_post, resumeLog>>
    /\ UNCHANGED <<queueVars, filterVars, pageVars, authVars, dlVars, extVars, eqVars>>

----------------------------------------------------------------------------
(* Credential cache *)

ImageboardConfig(board, user, tags) ==
    [imageboard |-> board, username |-> user, api_key |-> "key",
     user_data |-> [id |-> 1, name |-> user, blacklisted_tags |-> tags]]

\* ImageboardConfig::default()
DefaultConfig ==
    [imageboard |-> "danbooru", username |-> "", api_key |-> "",
     user_data |-> [id |-> 0, name |-> "", blacklisted_tags |-> {}]]

AuthBoards == {"danbooru", "e621"}

\* a read_config_from_fs that keeps the file it failed to decompress
read_config_from_fs_keeps_file(file) ==
    IF ~file.exists
    THEN [res |-> "Ok", config |-> None, file |-> file]
    ELSE LET decompressed == decode_all(file.data)
         IN IF decompressed.ok
            THEN LET rd == deserialize(CHOOSE b \in decompressed.bytes : TRUE)
                 IN IF rd.ok
                    THEN [res |-> "Ok", config |-> rd.value, file |-> file]
                    ELSE [res |-> "Ok", config |-> None, file |-> file]
            ELSE [res |-> "Ok", config |-> None, file |-> file]

\* a read_config_from_fs that propagates the deserialisation error with `?`
read_config_from_fs_propagates(file) ==
    IF ~file.exists
    THEN [res |-> "Ok", config |-> None, file |-> file]
    ELSE LET decompressed == decode_all(file.data)
         IN IF decompressed.ok
            THEN LET rd == deserialize(CHOOSE b \in decompressed.bytes : TRUE)
                 IN IF rd.ok
                    THEN [res |-> "Ok", config |-> rd.value, file |-> file]
                    ELSE [res |-> "Err", config |-> None, file |-> file]
            ELSE [res |-> "Ok", config |-> None, file |-> Absent(DefaultConfig)]

\* ImageBoards::read_config_from_fs (imageboards/mod.rs): the result, the
\* Option<ImageboardConfig> and the file afterwards
read_config_from_fs(file) ==
    IF ~file.exists
    THEN [res |-> "Ok", config |-> None, file |-> file]
    ELSE LET decompressed == decode_all(file.data)
         IN IF decompressed.ok
            THEN LET rd == deserialize(CHOOSE b \in decompressed.bytes : TRUE)
                 IN IF rd.ok
                    THEN [res |-> "Ok", config |-> rd.value, file |-> file]
                    ELSE [res |-> "Ok", config |-> None, file |-> file]
            ELSE \* remove_file(cfg_path).await?
                 [res |-> "Ok", config |-> None, file |-> Absent(DefaultConfig)]

\* read_config_from_fs (utils.rs): the same function of the later crate layout
utils_read_config_from_fs(file) ==
    IF ~file.exists
    THEN [res |-> "Ok", config |-> None, file |-> file]
    ELSE LET decompressed == decode_all(file.data)
         IN IF decompressed.ok
            THEN LET rd == deserialize(CHOOSE b \in decompressed.bytes : TRUE)
                 IN IF rd.ok
                    THEN [res |-> "Ok", config |-> rd.value, file |-> file]
                    ELSE [res |-> "Ok", config |-> None, file |-> file]
            ELSE [res |-> "Ok", config |-> None, file |-> Absent(DefaultConfig)]

\* ImageboardConfig::authenticate: on success the credentials are serialised,
\* compressed and written to the cache path; on failure nothing is written
authenticate(file, cfg, accepted) ==
    IF accepted
    THEN [res |-> "Ok", file |-> Present(encode_all(serialize(cfg)))]
    ELSE [res |-> "Err", file |-> file]

\* auth_prompt: asks for the credentials and authenticates when auth_state is set
auth_prompt(ask, file, cfg, accepted) ==
    IF ask THEN authenticate(file, cfg, accepted)
    ELSE [res |-> "Ok", file |-> file]

AuthIdle ==
    /\ cacheFile = [b \in AuthBoards |-> Absent(DefaultConfig)]
    /\ auth_state = FALSE
    /\ auth = DefaultConfig
    /\ authLog = <<>>

CacheChoices(board) ==
    {Absent(DefaultConfig), Present(NotAFrame(DefaultConfig)),
     Present(FrameOfJunk(DefaultConfig))}
    \cup {Present(encode_all(serialize(ImageboardConfig(board, "user", t)))) :
            t \in TierChoices}

\* what one call leaves in the log
AuthEntry(via, board, ask, before, loaded, prompted, r, state) ==
    [via |-> via, board |-> board, prompt |-> ask, before |-> before,
     loaded |-> loaded, read |-> prompted, res |-> r.res, config |-> r.config,
     after |-> r.file, auth_state |-> state]

\* DanbooruExtractor::auth(prompt)
DanbooruAuth ==
    /\ Len(authLog) < MaxAuths
    /\ imageboard = "danbooru"
    /\ \E ask \in BOOLEAN, accepted \in BOOLEAN, t \in TierChoices :
         LET before == cacheFile["danbooru"]
             p == auth_prompt(ask, before, ImageboardConfig("danbooru", "user", t), accepted)
         IN IF p.res = "Err"
            THEN /\ authLog' = Append(authLog,
                        AuthEntry("auth", "danbooru", ask, before, FALSE, before,
                                  [res |-> "Err", config |-> None, file |-> p.file],
                                  auth_state))
                 /\ UNCHANGED <<cacheFile, auth_state, auth>>
            ELSE LET r == read_config_from_fs(p.file)
                 IN /\ cacheFile' = [cacheFile EXCEPT !["danbooru"] = r.file]
                    /\ IF r.res = "Ok" /\ r.config # None
                       THEN /\ auth' = CHOOSE c \in r.config : TRUE
                            /\ auth_state' = TRUE
                       ELSE /\ auth' = auth
                            /\ auth_state' = IF r.res = "Ok" THEN FALSE ELSE auth_state
                    /\ authLog' = Append(authLog,
                           AuthEntry("auth", "danbooru", ask, before, TRUE, p.file, r,
                                     auth_state'))
    /\ UNCHANGED <<queueVars, filterVars, pageVars, dlVars, mainVars, extVars, eqVars>>

\* auth_imgboard(ask, extractor) of utils.rs; extractor.auth(creds) stores the
\* credentials and sets auth_state
auth_imgboard ==
    /\ Len(authLog) < MaxAuths
    /\ \E ask \in BOOLEAN, accepted \in BOOLEAN, t \in TierChoices :
         LET before == cacheFile[imageboard]
             p == auth_prompt(ask, before, ImageboardConfig(imageboard, "user", t), accepted)
         IN IF p.res = "Err"
            THEN /\ authLog' = Append(authLog,
                        AuthEntry("auth_imgboard", imageboard, ask, before, FALSE, before,
                                  [res |-> "Err", config |-> None, file |-> p.file],
                                  auth_state))
                 /\ UNCHANGED <<cacheFile, auth_state, auth>>
            ELSE LET r == utils_read_config_from_fs(p.file)
                 IN /\ cacheFile' = [cacheFile EXCEPT ![imageboard] = r.file]
                    /\ IF r.res = "Ok" /\ r.config # None
                       THEN /\ auth' = CHOOSE c \in r.config : TRUE
                            /\ auth_state' = TRUE
                       ELSE UNCHANGED <<auth, auth_state>>
                    /\ authLog' = Append(authLog,
                           AuthEntry("auth_imgboard", imageboard, ask, before, TRUE, p.file, r,
                                     auth_state'))
    /\ UNCHANGED <<queueVars, filterVars, pageVars, dlVars, mainVars, extVars, eqVars>>

QueueIdle ==
    /\ list = <<>>
    /\ user_blacklist = {}
    /\ limit = None
    /\ cbz = FALSE
    /\ sim_downloads = 1
    /\ disable_blacklist = FALSE
    /\ save_as_id = FALSE
    /\ gblFile = GblMissing
    /\ filterLog = <<>>

PageIdle ==
    /\ posts = <<>>
    /\ safe_mode = FALSE
    /\ download_ratings = {}
    /\ total_removed = 0
    /\ pageLog = <<>>

InitAuth ==
    /\ QueueIdle
    /\ PageIdle
    /\ imageboard \in AuthBoards
    /\ cacheFile \in {f \in [AuthBoards -> UNION {CacheChoices(b) : b \in AuthBoards}] :
                        \A b \in AuthBoards : f[b] \in CacheChoices(b)}
    /\ auth_state = FALSE
    /\ auth = DefaultConfig
    /\ authLog = <<>>
    /\ DlIdle
    /\ MainIdle
    /\ ExtIdle
    /\ EqIdle

NextAuth == DanbooruAuth \/ auth_imgboard

SpecAuth == InitAuth /\ [][NextAuth]_vars

----------------------------------------------------------------------------
(* Properties of the credential cache *)

FailsDecompression(f) == f.exists /\ ~decode_all(f.data).ok
FailsDeserialization(f) ==
    f.exists /\ decode_all(f.data).ok /\ ~deserialize(f.data.bytes).ok

----------------------------------------------------------------------------
(* SpecDownload: Queue::download on drawn queues, options and output directories *)

\* what Queue::download is called with: filter settings, limit, modes
DownloadOptions ==
    {o \in {[disable |-> d, user |-> u, gbl |-> g, limit |-> l, cbz |-> c, id |-> n] :
               d \in BOOLEAN, u \in {{"gore"}}, g \in {GblMissing}, l \in {None, Some(1)},
               c \in BOOLEAN, n \in BOOLEAN} :
        \* the name of an archive entry does not depend on save_as_id, nor does
        \* the filter
        /\ ~(o.cbz /\ o.id)
        /\ ~(~o.disable /\ o.id)}
    \cup {[disable |-> FALSE, user |-> {}, gbl |-> GblInvalid, limit |-> None,
           cbz |-> FALSE, id |-> FALSE]}

\* the files found in the output directory: for each name a Post of the list
\* will use, nothing, the Post's own bytes, or other bytes
ExistingFiles(l, name_id) ==
    LET names == {FileName(l[k], name_id) : k \in 1..Len(l)}
    IN {e \in [names -> {"absent", "good", "stale"}] :
           Cardinality({n \in names : e[n] = "stale"}) <= 1}

NameBody(n) == Body(CHOOSE d \in PostPool : FileName(d, n[1] = "id") = n)

\* the output directory holding the files e
InitFiles(e) ==
    LET present == {n \in DOMAIN e : e[n] # "absent"}
        order == CHOOSE f \in [1..Cardinality(present) -> present] :
                    \A a, b \in 1..Cardinality(present) : a # b => f[a] # f[b]
    IN /\ inodes = [k \in 1..Cardinality(present) |->
                       IF e[order[k]] = "good" THEN NameBody(order[k]) ELSE Stale]
       /\ paths = [n \in AllNames |->
                     IF n \in present
                     THEN CHOOSE k \in 1..Cardinality(present) : order[k] = n
                     ELSE 0]

InitDownload ==
    /\ list \in SeqsUpTo(PostPool, MaxQueue)
    /\ imageboard = "danbooru"
    /\ sim_downloads \in 1..MaxSim
    /\ \E o \in DownloadOptions :
         /\ disable_blacklist = o.disable
         /\ user_blacklist = o.user
         /\ gblFile = o.gbl
         /\ limit = o.limit
         /\ cbz = o.cbz
         /\ save_as_id = o.id
    /\ \E e \in ExistingFiles(list, save_as_id) :
         /\ cbz => \A n \in DOMAIN e : e[n] = "absent"
         /\ InitFiles(e)
         /\ dirs = IF \A n \in DOMAIN e : e[n] = "absent" THEN {} ELSE {BoardDir, TagDir}
    /\ filterLog = <<>>
    /\ PageIdle
    /\ AuthIdle
    /\ dl = "idle"
    /\ task = <<>>
    /\ counters = ProgressCounter_initialize
    /\ zip = NoZip
    /\ requested = {}
    /\ MainIdle
    /\ ExtIdle
    /\ EqIdle

NextDownload ==
    \/ DownloadBegin
    \/ \E i \in 1..(MaxQueue + 1) :
          \/ Admit(i)
          \/ ReadExisting(i)
          \/ RemoveStale(i)
          \/ Send(i)
          \/ Open(i)
          \/ Chunk(i)
          \/ Fail(i)
          \/ Complete(i)
    \/ DownloadEnd

SpecDownload == InitDownload /\ [][NextDownload]_vars

----------------------------------------------------------------------------
(* SpecDownloadLive: a Queue::download whose every awaited step comes back *)

\* every request, read and write a get awaits returns or fails, and the task
\* that awaits collect() is polled: a step that can be taken is taken
SpecDownloadLive == InitDownload /\ [][NextDownload]_vars /\ WF_vars(NextDownload)

----------------------------------------------------------------------------

(* SpecMain: one run of main after the extraction *)

MarkerChoices ==
    {Absent(NoPost), Present(NotAFrame(NoPost)), Present(FrameOfJunk(NoPost))}
    \cup {Present(encode_all(serialize(d))) : d \in {c \in PostPool : c.id \in {5, 10}}}

InitMain ==
    /\ mainPc = "extracted"
    /\ mainRes = "none"
    /\ post_queue \in SeqsUpTo(PostPool, MaxQueue)
    /\ update \in BOOLEAN
    /\ last_post = None
    /\ marker \in MarkerChoices
    /\ ~update => marker \in {Absent(NoPost),
                               Present(encode_all(serialize(CHOOSE c \in PostPool : c.id = 5)))}
    /\ resumeLog = None
    /\ list = <<>>
    /\ imageboard = "danbooru"
    /\ sim_downloads \in 1..MaxSim
    /\ disable_blacklist = TRUE
    /\ user_blacklist = {}
    /\ gblFile = GblMissing
    /\ limit = None
    /\ cbz \in BOOLEAN
    /\ save_as_id = FALSE
    /\ \E e \in [{FileName(post_queue[k], save_as_id) : k \in 1..Len(post_queue)}
                   -> {"absent", "good"}] :
         /\ cbz => \A n \in DOMAIN e : e[n] = "absent"
         /\ InitFiles(e)
         /\ dirs = IF marker.exists \/ \E n \in DOMAIN e : e[n] # "absent"
                   THEN {BoardDir, TagDir} ELSE {}
    /\ filterLog = <<>>
    /\ PageIdle
    /\ AuthIdle
    /\ dl = "idle"
    /\ task = <<>>
    /\ counters = ProgressCounter_initialize
    /\ zip = NoZip
    /\ requested = {}
    /\ ExtIdle
    /\ EqIdle

NextMain == MainStart \/ NextDownload \/ MainPersist

SpecMain == InitMain /\ [][NextMain]_vars

----------------------------------------------------------------------------
(* SpecExtract: one extraction against a source that answers anything *)

\* the arguments of an extraction and the state it starts in, but for the
\* post counter
ExtractInputs ==
    /\ extractor \in Extractors
    /\ ext_tags \in {<<"1girl", "solo">>, <<"1girl", "solo", "smile">>}
    /\ start_page \in {None, Some(1)}
    /\ search_limit \in {None, Some(1)}
    /\ epc = "validate"
    /\ page = 1
    /\ fvec = <<>>
    /\ has_posts = FALSE
    /\ total_posts_sent = 0
    /\ sender_channel = <<>>
    /\ searchRes = "none"
    /\ fetchLog = <<>>
    /\ slept = {}
    /\ counter_queue = 0
    /\ unsent = <<>>
    /\ list = <<>>
    /\ user_blacklist = {"explicit"}
    /\ imageboard = ExtractorBoard(extractor)
    /\ limit = search_limit
    /\ cbz = FALSE
    /\ sim_downloads = 1
    /\ disable_blacklist \in BOOLEAN
    /\ save_as_id = FALSE
    /\ gblFile \in {GblMissing, GblParsed(Some(BlacklistCategories({"explicit"}, {}, {})))}
    /\ filterLog = <<>>
    /\ PageIdle
    /\ AuthIdle
    /\ DlIdle
    /\ MainIdle
    /\ EqIdle

InitExtract == ExtractInputs /\ post_counter = None

NextExtract ==
    \/ DanbooruValidate
    \/ DanbooruFetch
    \/ MoebooruInit
    \/ MoebooruFetch
    \/ GelbooruValidate
    \/ GelbooruFetch
    \/ AsyncInit
    \/ AsyncFetch

SpecExtract == InitExtract /\ [][NextExtract]_vars

----------------------------------------------------------------------------
(* SpecLimit: the limit of a run, in the streaming producer and in the queue *)

\* a run is either an async_fetch with its limit or a Queue::download with its
\* limit
InitLimit ==
    \/ InitDownload
    \/ InitExtract /\ extractor \in {"e621_async", "gelbooru_async"}

NextLimit == AsyncInit \/ AsyncFetch \/ NextDownload

SpecLimit == InitLimit /\ [][NextLimit]_vars

----------------------------------------------------------------------------

(* SpecExtractLive: an extraction whose every request comes back *)

\* every request of the loop is answered (by a page or by an error): a step of
\* the extraction that can be taken is taken
SpecExtractLive == InitExtract /\ [][NextExtract]_vars /\ WF_vars(NextExtract)

----------------------------------------------------------------------------

(* SpecStream: an async_fetch with or without a post counter, and its consumer *)

\* the capacities of the channel of the post counter
CounterChoices == {None, Some(1)}

InitStream ==
    /\ ExtractInputs
    /\ extractor \in {"e621_async", "gelbooru_async"}
    /\ post_counter \in CounterChoices

NextStream == AsyncInit \/ AsyncFetch \/ AsyncResume \/ CounterRecv

SpecStream == InitStream /\ [][NextStream]_vars

----------------------------------------------------------------------------

(* SpecEquiv: full_search and async_fetch of Gelbooru on the same answers *)

\* the pages a source may answer with: a transport error, or up to MaxItems
\* items, each with a file url
ScriptPages ==
    {Response("conn", 0, <<>>)}
    \cup {Response("ok", Len(s), s) :
            s \in SeqsUpTo({RawItem(d, TRUE) : d \in ExtractPool}, MaxItems)}

InitEquiv ==
    /\ source_script \in [count : {Response("ok", 0, <<>>), Response("ok", 1, <<>>)},
                          pages : [1..MaxPages -> ScriptPages]]
    /\ full_run = None
    /\ async_run = None
    /\ extractor = "gelbooru"
    /\ ext_tags = <<"1girl", "solo">>
    /\ start_page \in {None, Some(1)}
    /\ search_limit \in {None, Some(1)}
    /\ epc = "off"
    /\ page = 1
    /\ fvec = <<>>
    /\ has_posts = FALSE
    /\ total_posts_sent = 0
    /\ sender_channel = <<>>
    /\ searchRes = "none"
    /\ fetchLog = <<>>
    /\ slept = {}
    /\ post_counter = None
    /\ counter_queue = 0
    /\ unsent = <<>>
    /\ list = <<>>
    /\ user_blacklist = {}
    /\ imageboard = "gelbooru"
    /\ limit = search_limit
    /\ cbz = FALSE
    /\ sim_downloads = 1
    /\ disable_blacklist \in BOOLEAN
    /\ save_as_id = FALSE
    /\ gblFile \in {GblMissing, GblParsed(Some(BlacklistCategories({"explicit"}, {}, {})))}
    /\ filterLog = <<>>
    /\ PageIdle
    /\ AuthIdle
    /\ DlIdle
    /\ MainIdle

NextEquiv == RunFullSearch \/ RunAsyncFetch

SpecEquiv == InitEquiv /\ [][NextEquiv]_vars

----------------------------------------------------------------------------
(* SpecFilter: the filters applied to drawn inputs *)

GblChoices ==
    {GblMissing, GblInvalid, GblParsed(None)}
    \cup {GblParsed(Some(BlacklistCategories(g, d, e))) :
            g \in TierChoices, d \in TierChoices, e \in TierChoices}

InitFilter ==
    /\ list \in SeqsUpTo(PostPool, MaxLen)
    /\ posts = list
    /\ user_blacklist \in TierChoices
    /\ imageboard \in {"danbooru", "e621"}
    /\ gblFile \in GblChoices
    /\ disable_blacklist \in BOOLEAN
    /\ safe_mode \in BOOLEAN
    /\ download_ratings = IF safe_mode THEN {"Safe"} ELSE {}
    /\ limit = None
    /\ cbz = FALSE
    /\ sim_downloads = 1
    /\ save_as_id = FALSE
    /\ filterLog = <<>>
    /\ total_removed = 0
    /\ pageLog = <<>>
    /\ AuthIdle
    /\ DlIdle
    /\ MainIdle
    /\ ExtIdle
    /\ EqIdle

\* one call of self.blacklist_filter(disable)
FilterCall ==
    /\ Len(filterLog) < MaxCalls
    /\ LET r == blacklist_filter(list, user_blacklist, imageboard, gblFile,
                                 disable_blacklist)
       IN /\ list' = r.list
          /\ gblFile' = r.file
          /\ filterLog' = Append(filterLog,
                [input |-> list, res |-> r.res, removed |-> r.removed,
                 output |-> r.list, disable |-> disable_blacklist])
    /\ UNCHANGED <<user_blacklist, imageboard, limit, cbz, sim_downloads,
                   disable_blacklist, save_as_id>>
    /\ UNCHANGED <<pageVars, authVars, dlVars, mainVars, extVars, eqVars>>

\* one page of DanbooruExtractor::full_search passed through the filter
DanbooruPage ==
    /\ imageboard = "danbooru"
    /\ pageLog = <<>>
    /\ LET bf == BlacklistFilter_init("danbooru", user_blacklist,
                     IF safe_mode THEN {"Safe"} ELSE {}, disable_blacklist, gblFile)
           r == DanbooruPageFilter(bf, posts, disable_blacklist, safe_mode)
       IN /\ bf.ok
          /\ total_removed' = total_removed + r.removed
          /\ pageLog' = Append(pageLog,
                [input |-> posts, output |-> r.list, removed |-> r.removed])
    /\ UNCHANGED <<posts, safe_mode, download_ratings>>
    /\ UNCHANGED <<queueVars, filterVars, authVars, dlVars, mainVars, extVars, eqVars>>

\* one page of E621Extractor::async_fetch passed through the filter
E621Page ==
    /\ imageboard = "e621"
    /\ pageLog = <<>>
    /\ LET bf == BlacklistFilter_init("e621", user_blacklist, download_ratings,
                                      disable_blacklist, gblFile)
           r == E621PageFilter(bf, posts, disable_blacklist, download_ratings)
       IN /\ bf.ok
          /\ total_removed' = total_removed + r.removed
          /\ pageLog' = Append(pageLog,
                [input |-> posts, output |-> r.list, removed |-> r.removed])
    /\ UNCHANGED <<posts, safe_mode, download_ratings>>
    /\ UNCHANGED <<queueVars, filterVars, authVars, dlVars, mainVars, extVars, eqVars>>

NextFilter == FilterCall \/ DanbooruPage \/ E621Page

SpecFilter == InitFilter /\ [][NextFilter]_vars

----------------------------------------------------------------------------
(* Properties of the blacklist filter *)

\* the tag sets in force for a call: none when disabled, else the user set and,
\* when the file declares categories, the global set and the set filed under
\* the name of the selected imageboard
ActiveTags(disable) ==
    IF disable THEN {}
    ELSE user_blacklist \cup
         UNION {t.global \cup t[imageboard] : t \in gblFile.blacklist}

Disjoint(c, set) == c.tags \cap set = {}

\* C7: for every successful call of the filter, the returned removed count plus
\* the number of retained Posts equals the number of input Posts, so a Post that
\* matches several tiers is counted once.
C7_RemovedPlusRetained ==
    \A k \in 1..Len(filterLog) :
        filterLog[k].res = "Ok" =>
            filterLog[k].removed + Len(filterLog[k].output) = Len(filterLog[k].input)

\* a call that removed exactly one Post whose tags are in all three tiers
C7_Witness ==
    /\ Len(filterLog) = 1
    /\ filterLog[1].res = "Ok"
    /\ ~disable_blacklist
    /\ filterLog[1].removed = 1
    /\ \E t \in gblFile.blacklist :
          \E k \in 1..Len(filterLog[1].input) :
             LET c == filterLog[1].input[k]
             IN /\ HasTagIn(c, user_blacklist)
                /\ HasTagIn(c, t.global)
                /\ HasTagIn(c, t[imageboard])

\* C8: a successful call retains exactly the input Posts whose tags are disjoint
\* from every active tier (user set, global set, the set of the selected
\* imageboard only), in input order; in particular ids [10,7,5] with 7 tagged
\* explicit and blacklist {explicit} give removed = 1 and retained [10,5].
C8_RetainsExactlyDisjoint ==
    \A k \in 1..Len(filterLog) :
        filterLog[k].res = "Ok" =>
            filterLog[k].output =
                SelectSeq(filterLog[k].input,
                          LAMBDA c : Disjoint(c, ActiveTags(filterLog[k].disable)))

\* the scenario of the specification: [10,7,5], blacklist {explicit} -> 1, [10,5]
C8_Witness ==
    /\ Len(filterLog) = 1
    /\ filterLog[1].res = "Ok"
    /\ ~disable_blacklist
    /\ user_blacklist = {"explicit"}
    /\ Ids(filterLog[1].input) = <<10, 7, 5>>
    /\ filterLog[1].removed = 1
    /\ Ids(filterLog[1].output) = <<10, 5>>
    /\ Ids(list) = <<10, 5>>

\* C9: a second successful call with the same configuration on the retained
\* output of the first removes nothing and returns the same list.
C9_Idempotent ==
    (Len(filterLog) = 2 /\ filterLog[2].res = "Ok") =>
        /\ filterLog[2].input = filterLog[1].output
        /\ filterLog[2].removed = 0
        /\ filterLog[2].output = filterLog[2].input

\* a second call after a first call that removed two Posts
C9_Witness ==
    /\ Len(filterLog) = 2
    /\ filterLog[1].res = "Ok"
    /\ filterLog[2].res = "Ok"
    /\ filterLog[1].removed = 2
    /\ Len(filterLog[2].output) = 1

----------------------------------------------------------------------------
(* Properties of the download queue *)

\* C1: at any moment of a download, in folder mode and in archive mode alike,
\* the number of Posts whose fetch has begun and not ended is at most
\* sim_downloads.
C1_AtMostNInFlight == Cardinality(InFlight) <= sim_downloads

\* the limit binds: as many fetches as allowed are under way, one of them
\* receiving its body, and a further Post of the list is waiting for a slot
C1_Witness ==
    /\ dl = "running"
    /\ Cardinality(InFlight) = sim_downloads
    /\ \E i \in InFlight : task[i].pc \in {"stream", "open"} /\ i \in requested
    /\ \E k \in DOMAIN task : task[k].pc = "pending"

\* the file a Post of the list at position i is written to
Destination(i) == FileName(list[i], save_as_id)

\* the check of position i reads, at this moment, a file with the Post's digest
ReadsEqualHash(i) ==
    /\ ~cbz
    /\ i \in DOMAIN task
    /\ task[i].pc = "read"
    /\ paths[Destination(i)] # 0
    /\ Md5(inodes[paths[Destination(i)]]) = list[i].md5

\* C2: in folder mode, when the check of a Post finds its destination file
\* present with a digest equal to the Post's md5, the get of that Post ends
\* there as skipped: no request is issued for it, total grows by one,
\* downloaded does not grow, and no file is created, removed or written. A
\* skipped Post is never requested.
C2_EqualHashSkips ==
    [][ /\ \A i \in DOMAIN task :
              (ReadsEqualHash(i) /\ task'[i] # task[i])
              => /\ task'[i].pc = "done"
                 /\ task'[i].out = "skipped"
                 /\ i \notin requested'
                 /\ counters'.total = counters.total + 1
                 /\ counters'.downloaded = counters.downloaded
                 /\ paths' = paths
                 /\ inodes' = inodes
        /\ \A i \in DOMAIN task' : task'[i].out = "skipped" => i \notin requested'
      ]_vars

\* a finished run of two Posts: the first was found on disk and skipped, the
\* second was fetched; only the second was requested and counted as downloaded
C2_Witness ==
    /\ dl = "done"
    /\ ~cbz
    /\ Len(list) = 2
    /\ task[1].out = "skipped"
    /\ task[2].out = "downloaded"
    /\ requested = {2}
    /\ counters.total = 2
    /\ counters.downloaded = 1
    /\ Md5(inodes[paths[Destination(1)]]) = list[1].md5

----------------------------------------------------------------------------
(* Properties of the resume marker *)

\* the Post a marker file decodes to, if it does
MarkerPost(mk) ==
    IF ~mk.exists THEN None
    ELSE LET dec == decode_all(mk.data)
         IN IF ~dec.ok THEN None
            ELSE LET de == deserialize(CHOOSE b \in dec.bytes : TRUE)
                 IN IF de.ok THEN de.value ELSE None

\* C3: in a resume run whose marker decodes to a Post with id M, the list
\* handed to the queue is the extracted list restricted to the Posts with
\* id > M, in the extracted order (nothing is handed on when none is left),
\* and every Post a request is issued for has id > M.
C3_ResumeKeepsNewer ==
    \A e \in resumeLog : \A m \in MarkerPost(e.marker) :
        update =>
            LET newer == SelectSeq(e.extracted, LAMBDA c : c.id > m.id)
            IN /\ e.res = "Ok"
               /\ e.handed = IF newer = <<>> THEN None ELSE Some(newer)
               /\ newer # <<>> => list = newer
               /\ newer = <<>> => requested = {}
               /\ \A i \in requested : list[i].id > m.id

\* a finished resume run: marker of id 5, extraction of the Posts 3 and 10;
\* the file of Post 3 is not in the output directory and yet only Post 10 was
\* handed on and fetched
C3_Witness ==
    /\ update
    /\ mainPc = "ended"
    /\ mainRes = "Ok"
    /\ \E e \in resumeLog :
         /\ \E m \in MarkerPost(e.marker) : m.id = 5
         /\ Ids(e.extracted) = <<3, 10>>
         /\ Ids(list) = <<10>>
         /\ paths[FileName(e.extracted[1], save_as_id)] = 0
    /\ requested = {1}
    /\ task[1].out = "downloaded"

\* the marker file exists and does not decode to a Post
Undecodable(mk) == mk.exists /\ MarkerPost(mk) = None

\* C4: in a resume run whose marker file exists and cannot be decoded, the
\* marker file is deleted, the run goes on, and the whole extracted list is
\* handed to the queue.
C4_CorruptMarkerIgnored ==
    \A e \in resumeLog :
        (update /\ Undecodable(e.marker))
        => /\ e.res = "Ok"
           /\ ~e.markerAfter.exists
           /\ e.handed = Some(e.extracted)

----------------------------------------------------------------------------
(* Properties of the extractors *)

NonStreaming == {"danbooru", "moebooru", "gelbooru"}

Descending(s) == \A k \in 1..(Len(s) - 1) : s[k].id >= s[k + 1].id

StrictlyDescending(s) == \A k \in 1..(Len(s) - 1) : s[k].id > s[k + 1].id

DistinctIds(s) == \A a, b \in 1..Len(s) : a # b => s[a].id # s[b].id

\* the requests for a page, in the order they were issued
PageRequests == SelectSeq(fetchLog, LAMBDA q : q.kind = "page")

\* C11: the PostQueue returned by full_search of the Danbooru, Moebooru and
\* Gelbooru extractors is sorted in descending order of id.
C11_FullSearchDescending ==
    (extractor \in NonStreaming /\ searchRes = "Ok") => Descending(post_queue)

\* C12: the ids of a PostQueue returned by full_search are distinct, whatever
\* the pages hold; where the result is sorted (Danbooru) it is strictly
\* descending.
C12_IdsDistinct ==
    (extractor \in NonStreaming /\ searchRes = "Ok")
    => /\ DistinctIds(post_queue)
       /\ extractor = "danbooru" => StrictlyDescending(post_queue)

\* C15: an extraction that ends on a page without items fails with ZeroPosts
\* when it is the first page of the run, and ends successfully when an earlier
\* page of the run held at least one Post, filtered out or not.
C15_ZeroPostsIffNothingBefore ==
    LET p == PageRequests
        n == Len(p)
    IN (epc = "done" /\ n > 0 /\ p[n].resp.res = "ok" /\ p[n].resp.items = <<>>)
       => /\ n = 1 => searchRes = "ZeroPosts"
          /\ (\E k \in 1..(n - 1) : map_posts(p[k].resp.items) # <<>>)
             => searchRes = "Ok"

\* C16: validation is over before the first page is requested.  With more
\* tags than the source allows (Danbooru: 2) the extraction fails with
\* TooManyTags and no request at all was issued; when the count request
\* reports zero it fails with ZeroPosts and no page was requested; in both
\* cases no Post was produced.  Where there is a count request, every page
\* request comes after it and after it reported a count above zero.
C16_ValidationBeforeFetch ==
    /\ (extractor = "danbooru" /\ Len(ext_tags) > 2 /\ epc # "validate")
       => /\ searchRes = "TooManyTags"
          /\ fetchLog = <<>>
          /\ post_queue = <<>> /\ fvec = <<>> /\ sender_channel = <<>>
    /\ \A k \in DOMAIN fetchLog :
          (fetchLog[k].kind = "count" /\ fetchLog[k].resp.res = "ok"
             /\ fetchLog[k].resp.n = 0)
          => /\ searchRes = "ZeroPosts"
             /\ PageRequests = <<>>
             /\ post_queue = <<>> /\ fvec = <<>> /\ sender_channel = <<>>
    /\ (extractor \in {"danbooru", "gelbooru"} /\ PageRequests # <<>>)
       => /\ fetchLog[1].kind = "count"
          /\ fetchLog[1].resp.res = "ok"
          /\ fetchLog[1].resp.n > 0
          /\ \A k \in 2..Len(fetchLog) : fetchLog[k].kind = "page"

\* a query of three tags on Danbooru: TooManyTags, and nothing was requested
C16_Witness ==
    /\ extractor = "danbooru"
    /\ Len(ext_tags) = 3
    /\ epc = "done"
    /\ searchRes = "TooManyTags"
    /\ fetchLog = <<>>

\* a count request that reported zero: ZeroPosts, and no page was requested
C16_ZeroCountReached ==
    /\ epc = "done"
    /\ searchRes = "ZeroPosts"
    /\ Len(fetchLog) = 1
    /\ fetchLog[1].kind = "count"
    /\ fetchLog[1].resp.n = 0

\* C17: a page request that fails (connection error, or a response that is
\* not of the expected shape) is the last request of the extraction, and the
\* extraction returns that error and no PostQueue.
C17_PageFailureAborts ==
    \A k \in DOMAIN fetchLog :
        (fetchLog[k].kind = "page" /\ fetchLog[k].resp.res # "ok")
        => /\ k = Len(fetchLog)
           /\ epc = "done"
           /\ searchRes = IF fetchLog[k].resp.res = "conn"
                          THEN "ConnectionError" ELSE "InvalidServerResponse"
           /\ post_queue = <<>>

----------------------------------------------------------------------------
(* Properties of the download queue: failed Posts and the archive *)

\* the get of position i ends in this step with the given outcome
EndsWith(i, outcome) ==
    /\ i \in DOMAIN task
    /\ i \in DOMAIN task'
    /\ task[i].out # outcome
    /\ task'[i].out = outcome

\* the download goes on: it does not end with an error, and it ends only when
\* every Post of the list has been through get
RunGoesOn ==
    /\ dl = "running" => dl' \in {"running", "done"}
    /\ dl' = "done" => \A j \in DOMAIN task' : task'[j].pc = "done"

\* C13: when the fetch of a Post gets a client-error response, the get of that
\* Post ends there: no file, archive entry or byte is written, downloaded
\* stays as it is, the processed counter (main) grows by one, no other get is
\* touched, and the download goes on to process the other Posts and to
\* return Ok.
C13_ClientErrorSkipsOnePost ==
    [][ /\ \A i \in DOMAIN task :
              EndsWith(i, "client_error")
              => /\ counters'.main = counters.main + 1
                 /\ counters'.downloaded = counters.downloaded
                 /\ paths' = paths
                 /\ inodes' = inodes
                 /\ zip' = zip
                 /\ task'[i].pc = "done"
                 /\ \A j \in DOMAIN task : j # i => task'[j] = task[j]
        /\ RunGoesOn
      ]_vars

\* a finished download of two Posts with different files: the first got a 404,
\* the second was downloaded; both are processed, one is counted as
\* downloaded, and there is no file for the first
C13_Witness ==
    /\ dl = "done"
    /\ ~cbz
    /\ Len(list) = 2
    /\ list[1].md5 # list[2].md5
    /\ task[1].out = "client_error"
    /\ task[2].out = "downloaded"
    /\ counters.main = 2
    /\ counters.downloaded = 1
    /\ paths[Destination(1)] = 0
    /\ paths[Destination(2)] # 0

\* C14: when the get of a Post fails (request, body chunk, file open or write,
\* archive append, or the read of the existing file), the failure is counted
\* for that Post in the processed counter (main) and the download goes on to
\* process the other Posts and to return Ok.
C14_FailureCountedRunGoesOn ==
    [][ /\ \A i \in DOMAIN task :
              EndsWith(i, "failed") => counters'.main = counters.main + 1
        /\ RunGoesOn
      ]_vars

\* C18: in a .cbz download the manifest is in the archive before any entry of
\* a Post; the archive is finalised (comment set, finish called) only when
\* every get has ended; and once finalised the archive is not written again.
C18_ManifestFirstFinalizeLast ==
    [][ /\ \A k \in DOMAIN zip'.entries :
              zip'.entries[k].kind = "media"
              => \E j \in 1..(k - 1) :
                     /\ zip'.entries[j].kind = "manifest"
                     /\ zip'.entries[j].posts = list'
        /\ zip'.finished
           => /\ zip'.comment # None
              /\ \A i \in DOMAIN task' : task'[i].pc = "done"
        /\ zip.finished => zip' = zip
      ]_vars

\* a finalised archive of two downloaded Posts: manifest, then two entries
C18_Witness ==
    /\ cbz
    /\ zip.finished
    /\ Len(list) = 2
    /\ Len(zip.entries) = 7
    /\ zip.entries[5].kind = "manifest"
    /\ zip.entries[6].kind = "media"
    /\ zip.entries[7].kind = "media"

\* the entries of the archive of one kind
EntriesOf(kind) == SelectSeq(zip.entries, LAMBDA en : en.kind = kind)

\* C19: a finished .cbz download whose k Posts were all downloaded has exactly
\* one manifest entry and exactly k media entries, one per Post and named
\* <rating>/<md5>.<extension>, and a comment with the tag string and k.
C19_ArchiveOfAllPosts ==
    (cbz /\ dl = "done" /\ \A i \in DOMAIN task : task[i].out = "downloaded")
    => LET media == EntriesOf("media")
           k == Len(list)
       IN /\ Len(EntriesOf("manifest")) = 1
          /\ Len(media) = k
          /\ \A i \in 1..k :
                Cardinality({e \in 1..Len(media) : media[e].name = EntryName(list[i])})
                = Cardinality({j \in 1..k : EntryName(list[j]) = EntryName(list[i])})
          /\ zip.comment = Some([website |-> imageboard, tags |-> tag_s, posts |-> k])

\* a finished archive of two different Posts, both downloaded
C19_Witness ==
    /\ cbz
    /\ dl = "done"
    /\ Len(list) = 2
    /\ list[1] # list[2]
    /\ \A i \in DOMAIN task : task[i].out = "downloaded"
    /\ Len(EntriesOf("media")) = 2

\* C20: the calls that write the entry of a Post, start_file and then
\* write_all with its body, are made back to back by the same get: no call of
\* another get comes between them under any interleaving.
C20_EntryWrittenAtomically ==
    \A p \in DOMAIN zip.stream :
        /\ zip.stream[p].op = "start_file"
           => /\ p + 1 \in DOMAIN zip.stream
              /\ zip.stream[p + 1].op = "write_all"
              /\ zip.stream[p + 1].by = zip.stream[p].by
        /\ zip.stream[p].op = "write_all"
           => /\ p - 1 \in DOMAIN zip.stream
              /\ zip.stream[p - 1].op = "start_file"
              /\ zip.stream[p - 1].by = zip.stream[p].by

\* two gets received their bodies at the same time, and both entries are in
\* the archive
C20_Witness ==
    /\ cbz
    /\ sim_downloads >= 2
    /\ Len(zip.stream) >= 8
    /\ zip.stream[7].by # 0
    /\ \E i \in DOMAIN task : task[i].pc = "done" /\ task[i].out = "downloaded"
    /\ \E j \in DOMAIN task : task[j].pc = "stream" /\ task[j].buf # <<>>

----------------------------------------------------------------------------
(* Properties of the download queue: counters and destination files *)

\* the positions of the list whose get ended with the given outcome
Ended(outcome) == {i \in DOMAIN task : task[i].pc = "done" /\ task[i].out = outcome}

\* C21: whatever the interleaving of the gets, the downloaded counter is the
\* number of Posts whose fetch-and-store completed, and the total counter is
\* that number plus the number of Posts skipped as already present; this
\* holds at every moment of the download and so when download returns.
C21_NoCounterUpdateLost ==
    dl \in {"running", "done"}
    => /\ counters.downloaded = Cardinality(Ended("downloaded"))
       /\ counters.total = Cardinality(Ended("downloaded")) + Cardinality(Ended("skipped"))

\* download has returned from a run with two gets admitted side by side that
\* both completed their fetch
C21_Witness ==
    /\ dl = "done"
    /\ sim_downloads = 2
    /\ Ended("downloaded") = {1, 2}
    /\ requested = {1, 2}
    /\ counters.downloaded = 2
    /\ counters.total = 2

----------------------------------------------------------------------------
(* Properties of main: the empty queue and the order of the stages *)

\* main is about to apply a marker that decodes to a Post whose id no
\* extracted Post exceeds
NothingNewer ==
    /\ mainPc = "extracted"
    /\ update
    /\ post_queue # <<>>
    /\ \E m \in MarkerPost(marker) : \A k \in 1..Len(post_queue) : post_queue[k].id <= m.id

\* C22: when the resume step leaves no Post, main ends there with Ok: the
\* queue is never started, no request is issued, no file, directory or
\* archive is created or changed, the marker file is as it was, and nothing
\* happens after main has ended.
C22_NothingLeftIsZeroWork ==
    [][ /\ NothingNewer
           => /\ mainPc' = "ended"
              /\ mainRes' = "Ok"
              /\ marker' = marker
              /\ dl' = "idle"
              /\ requested' = {}
              /\ UNCHANGED <<task, counters, paths, inodes, dirs, zip>>
        /\ mainPc = "ended" => UNCHANGED vars
      ]_vars

\* a resume run that ended with Ok without starting the queue: marker of id
\* 10, extraction of the Posts 10 and 7, neither of which has a file in the
\* output directory
C22_Witness ==
    /\ update
    /\ mainPc = "ended"
    /\ mainRes = "Ok"
    /\ dl = "idle"
    /\ requested = {}
    /\ \E e \in resumeLog :
         /\ \E m \in MarkerPost(e.marker) : m.id = 10
         /\ Ids(e.extracted) = <<10, 7>>
         /\ e.handed = None
         /\ marker = e.marker
         /\ \A k \in 1..2 : paths[FileName(e.extracted[k], save_as_id)] = 0

\* C23: when the extraction returned Ok with an empty queue, main ends with
\* the outcome of the empty queue (Ok after "No posts left to download!"),
\* neither with a panic nor with another error, and starts nothing.
C23_EmptyQueueReported ==
    [][ (mainPc = "extracted" /\ post_queue = <<>>)
        => /\ mainPc' = "ended"
           /\ mainRes' = "Ok"
           /\ dl' = "idle"
      ]_vars

\* the marker file is written in this step, after a download that returned Ok
\* with every Post through its get, and holds a Post of the extracted queue
\* that no extracted Post exceeds in id
MarkerWrittenLast ==
    marker' # marker
    => /\ dl = "done"
       /\ \A i \in DOMAIN task : task[i].pc = "done"
       /\ mainRes' = "Ok"
       /\ \E e \in resumeLog : \E m \in MarkerPost(marker') :
            /\ \E k \in 1..Len(e.extracted) : e.extracted[k] = m
            /\ \A k \in 1..Len(e.extracted) : e.extracted[k].id <= m.id

\* no request is issued before the resume filter has been applied
FetchAfterResume == requested' # requested => resumeLog # None

----------------------------------------------------------------------------
(* Properties of the extractors: streaming against non-streaming, paging *)

\* the requests of a run of the given kind, as positions
Positions(run, kind) ==
    LET asked == SelectSeq(run.requests, LAMBDA q : q.kind = kind)
    IN [k \in 1..Len(asked) |-> asked[k].position]

\* the Posts of a run, as a set
PostSet(run) == {run.posts[k] : k \in 1..Len(run.posts)}

\* C25: on the same answers of the source, the same start page and the same
\* limit, full_search and async_fetch of the Gelbooru adapter make the same
\* validation request, request the same pages, and end with the same result:
\* the same error, or Ok with the same set of Posts.
C25_StreamingSameAsFullSearch ==
    \A f \in full_run : \A a \in async_run :
        /\ Positions(f, "count") = Positions(a, "count")
        /\ Positions(f, "page") = Positions(a, "page")
        /\ f.res = a.res
        /\ f.res = "Ok" => PostSet(f) = PostSet(a)

----------------------------------------------------------------------------
(* Properties of the persisted files: encoding and decoding *)

\* the credentials a cache file is written with
CredentialChoices == {ImageboardConfig(b, "user", t) : b \in AuthBoards, t \in TierChoices}

----------------------------------------------------------------------------
(* Properties of the extractors: the pages requested *)

\* the position the loop of the running extractor requests in its first turn
\* when called with the start page sp
FirstPosition(sp) ==
    IF extractor = "gelbooru" THEN Position(1, sp) - 1 ELSE Position(1, sp)

\* C27: a search called with start_page = Some(1) requests first the page a
\* search called with start_page = None requests first.
C27_StartPageOneIsFirstPage ==
    (start_page = Some(1) /\ PageRequests # <<>>)
    => PageRequests[1].position = FirstPosition(None)

----------------------------------------------------------------------------
(* Properties of the download queue: the destination files of folder mode *)

\* the gets that hold the destination file of position i open for appending
Writers(i) ==
    {j \in DOMAIN task : task[j].pc = "stream" /\ task[j].fd = task[i].fd}

\* C28: in folder mode no two gets append to the same file at the same time,
\* and when download has returned the destination of every Post that was
\* fetched and stored holds the bytes of that one body.
C28_OneWriterPerFile ==
    ~cbz
    => /\ \A i \in DOMAIN task : task[i].pc = "stream" => Writers(i) = {i}
       /\ dl = "done"
          => \A i \in Ended("downloaded") :
               /\ paths[Destination(i)] # 0
               /\ inodes[paths[Destination(i)]] = Body(list[i])

\* C29: in folder mode a get whose check found a file with another digest
\* deletes it before anything is opened: the step after the read is the
\* removal, the removal leaves no file under the name, the open that follows
\* yields an empty file, and when the fetch completes the destination holds
\* exactly the fetched body.
C29_StaleDeletedBeforeAppend ==
    [][ ~cbz =>
        \A i \in DOMAIN task :
            /\ (task[i].pc = "read" /\ paths[Destination(i)] # 0
                /\ ~ReadsEqualHash(i) /\ task'[i] # task[i])
               => /\ task'[i].pc = "remove"
                  /\ paths' = paths
            /\ (task[i].pc = "remove" /\ task'[i].pc = "send")
               => paths'[Destination(i)] = 0
            /\ (task[i].removed /\ task[i].pc = "open" /\ task'[i].pc = "stream")
               => inodes'[task'[i].fd] = <<>>
            /\ (task[i].removed /\ task[i].pc = "stream" /\ task'[i].out = "downloaded")
               => /\ paths'[Destination(i)] # 0
                  /\ inodes'[paths'[Destination(i)]] = Body(list[i])
      ]_vars

\* the answer to the request issued in this step
Answer == fetchLog'[Len(fetchLog')].resp

\* the number of Posts accumulated once this step is done
Accumulated ==
    IF extractor \in {"e621_async", "gelbooru_async"}
    THEN total_posts_sent' ELSE Len(fvec')

\* C30: the loop ends only on an empty page, on the limit or on the page cap:
\* after a page that yielded at least one Post, with the limit not reached
\* and the page cap not reached, the loop goes on to request the next page,
\* also when the page was shorter than the page size.
C30_LoopStopsOnlyOnThreeReasons ==
    [][ (epc = "fetch" /\ fetchLog' # fetchLog)
        => ((/\ Answer.res = "ok"
             /\ Len(map_posts(Answer.items)) > 0
             /\ ~LimitReached(Accumulated, search_limit)
             /\ page < MaxPages)
            => (epc' = "fetch" /\ page' = page + 1))
      ]_vars

----------------------------------------------------------------------------
(* Properties of the limit of a run *)

\* the Posts the last call of blacklist_filter left in the queue
FilteredQueue == filterLog[Len(filterLog)].output

\* C31: the number of Posts handed to download never exceeds the caller limit:
\* async_fetch sends at most limit Posts on the channel over the whole run, and
\* Queue::download makes futures for at most the first limit Posts of the
\* filtered list
C31_AtMostLimitHandedOver ==
    /\ total_posts_sent = Len(sender_channel)
    /\ search_limit # None => Len(sender_channel) <= (CHOOSE num \in search_limit : TRUE)
    /\ (dl \in {"running", "done"} /\ filterLog # <<>>) =>
          /\ limit # None => Len(list) <= (CHOOSE max \in limit : TRUE)
          /\ Len(list) <= Len(FilteredQueue)
          /\ list = SubSeq(FilteredQueue, 1, Len(list))
          /\ DOMAIN task = 1..Len(list)
          /\ requested \subseteq DOMAIN task

\* a download of a filtered list of two Posts under a limit of one has ended
\* with one Post fetched
C31_Witness ==
    /\ dl = "done"
    /\ limit = Some(1)
    /\ Len(FilteredQueue) = 2
    /\ Len(list) = 1
    /\ requested = {1}
    /\ task[1].out = "downloaded"

\* an async_fetch under a limit of one has met a page of two Posts that pass
\* the filter and has sent one
C31_StreamWitness ==
    /\ extractor \in {"e621_async", "gelbooru_async"}
    /\ search_limit = Some(1)
    /\ searchRes = "Ok"
    /\ Len(sender_channel) = 1
    /\ \E k \in DOMAIN fetchLog :
         /\ fetchLog[k].resp.n = 2
         /\ Len(map_posts(fetchLog[k].resp.items)) = 2
         /\ disable_blacklist

----------------------------------------------------------------------------
(* Properties of the extractors: the end of the page loop *)

----------------------------------------------------------------------------
(* Properties of the extractors: the delay between pages *)

\* C33: between two consecutive page requests of one extraction the loop has
\* slept: the request made with page = p + 1 comes after a delay taken at the
\* end of the turn of page p, and no delay is taken after the page that ends
\* the loop; for the loop of every extractor.
C33_DelayBetweenPages ==
    /\ \A p \in 1..(Len(PageRequests) - 1) : p \in slept
    /\ slept \subseteq 1..(page - 1)

\* the same, for the loops that do sleep
C33_SleepingLoops ==
    extractor \in {"gelbooru", "e621_async", "gelbooru_async"} => C33_DelayBetweenPages

\* a loop that sleeps has requested two pages and ended on the second
C33_SleepReached ==
    /\ extractor \in {"gelbooru", "e621_async", "gelbooru_async"}
    /\ epc = "done"
    /\ Len(PageRequests) = 2
    /\ slept = {1}

----------------------------------------------------------------------------
(* Properties of the extractors: items without a direct file url *)

\* what the filter of the loop leaves of a list of Posts, with the number it
\* removed
LoopFiltered(l) ==
    CASE extractor = "danbooru" ->
           DanbooruPageFilter(LoopFilter, l, disable_blacklist, safe_mode)
      [] extractor = "gelbooru" -> [list |-> l, removed |-> 0]
      [] OTHER -> E621PageFilter(LoopFilter, l, disable_blacklist, download_ratings)

\* the turn of the loop that took a decoded page neither fails nor panics,
\* gains the Posts of the items that have a url (less what the filter removes)
\* and counts as removed what the filter removed
DropsItemsWithoutUrl ==
    (epc = "fetch" /\ fetchLog' # fetchLog /\ Answer.res = "ok")
    => LET kept == LoopFiltered(map_posts(Answer.items))
       IN /\ searchRes' \in {"none", "Ok", "ZeroPosts"}
          /\ total_removed' - total_removed = kept.removed
          /\ (extractor \in NonStreaming /\ searchRes' # "ZeroPosts")
             => sort(IF epc' = "fetch" THEN fvec' ELSE post_queue')
                  = sort(fvec \o kept.list)
          /\ extractor \notin NonStreaming
             => sender_channel' = sender_channel \o Sent(kept.list, search_limit)

\* C34: an item of a page that has no direct file url is dropped in silence:
\* it makes no Post, the page fetch neither fails nor panics because of it, it
\* is not added to the removed count, and the other items of the page are
\* still mapped; for every extractor and both shapes of a Gelbooru answer.
C34_ItemWithoutUrlDropped == [][DropsItemsWithoutUrl]_vars

\* the same, for all loops but that of GelbooruExtractor::full_search
C34_OtherLoops == [][extractor # "gelbooru" => DropsItemsWithoutUrl]_vars

\* a page with an item without a url, next to one with a url, has been taken
\* by a loop other than that of GelbooruExtractor::full_search
C34_DropReached ==
    /\ extractor # "gelbooru"
    /\ searchRes = "Ok"
    /\ \E k \in DOMAIN fetchLog :
         /\ fetchLog[k].resp.n = 2
         /\ Len(map_posts(fetchLog[k].resp.items)) = 1

----------------------------------------------------------------------------
(* Properties of the streaming producer *)

\* C35: in streaming mode the producer never waits on a consumer: sending a
\* Post and reporting it on the post counter return at once, so the loop goes
\* on to the next page whether or not anything is taken from the channel of
\* Posts or from the post counter.
C35_ProducerNeverWaits == epc # "blocked"

\* the same, for the runs whose post counter is not a channel
C35_WithoutCounterChannel == ~CounterIsChannel => C35_ProducerNeverWaits

\* a run with an atomic post counter has sent the Posts of two pages
C35_AtomicCounterReached ==
    /\ extractor = "gelbooru_async"
    /\ post_counter # None
    /\ searchRes = "Ok"
    /\ Len(PageRequests) = 2
    /\ Len(sender_channel) >= 2

----------------------------------------------------------------------------
(* Properties of main: what the resume marker stands for *)

\* the Post d is in the output: its file holds its body, or the archive has a
\* media entry of its name with its body
Stored(d) ==
    IF cbz
    THEN \E k \in DOMAIN zip.entries :
            /\ zip.entries[k].kind = "media"
            /\ zip.entries[k].name = EntryName(d)
            /\ zip.entries[k].bytes = Body(d)
    ELSE /\ paths[FileName(d, save_as_id)] # 0
         /\ inodes[paths[FileName(d, save_as_id)]] = Body(d)

\* this run has written the marker
MarkerPersisted == mainPc = "ended" /\ mainRes = "Ok" /\ dl = "done"

\* C36: when a run has persisted a resume marker with id M, every Post of the
\* queue it extracted with an id of at most M is stored at the end of the run,
\* downloaded by it or found present, so that no later run with --update
\* skips a Post that was never stored.
C36_MarkerMeansStored ==
    MarkerPersisted
    => \A e \in resumeLog, m \in MarkerPost(marker) : \A k \in DOMAIN e.extracted :
          e.extracted[k].id <= m.id => Stored(e.extracted[k])

\* the same for the Posts handed to the download alone, leaving out those the
\* resume filter skipped on the word of an earlier marker
C36_HandedMeansStored ==
    MarkerPersisted
    => \A m \in MarkerPost(marker) : \A k \in DOMAIN list :
          list[k].id <= m.id => Stored(list[k])

\* the same for the runs in folder mode whose every get ended as downloaded
\* or skipped, on a list of Posts with a file name each
C36_AllStoredRuns ==
    (/\ ~cbz
     /\ \A a, b \in DOMAIN list :
          a # b => FileName(list[a], save_as_id) # FileName(list[b], save_as_id)
     /\ \A i \in DOMAIN task : task[i].out \in {"downloaded", "skipped"})
    => C36_HandedMeansStored

----------------------------------------------------------------------------
(* Properties of the download queue: every Post is processed once *)

\* how far the get of a Post has come
Stage(pc) ==
    CASE pc = "pending" -> 0
      [] pc = "read" -> 1
      [] pc = "remove" -> 2
      [] pc = "send" -> 3
      [] pc = "open" -> 4
      [] pc = "stream" -> 5
      [] pc = "done" -> 6

\* the get of each position only moves forward, and a get that has completed
\* is not touched again
EachGetRunsOnce ==
    \A i \in DOMAIN task :
       /\ i \in DOMAIN task'
       /\ Stage(task'[i].pc) >= Stage(task[i].pc)
       /\ task[i].pc = "done" => task'[i] = task[i]

\* one get for each Post of the filtered and truncated list, and each has
\* completed
EveryGetCompleted ==
    /\ list = Truncate(FilteredQueue, limit)
    /\ DOMAIN task = 1..Len(list)
    /\ \A i \in DOMAIN task :
          /\ task[i].pc = "done"
          /\ task[i].out \in {"downloaded", "skipped", "client_error", "failed"}
    /\ requested \subseteq DOMAIN task

\* C37: with every fetch returning or failing, Queue::download with
\* sim_downloads >= 1 comes to its end, and when it returns after the stream
\* every Post of the filtered and truncated list has gone through exactly one
\* get that has completed: none is skipped and none is processed twice.
C37_EveryPostProcessedOnce ==
    /\ [](dl = "done" => EveryGetCompleted)
    /\ [][EachGetRunsOnce]_vars
    /\ <>(dl \in {"done", "failed"})

\* a download of two Posts, one at a time, has returned with both downloaded
C37_Witness ==
    /\ dl = "done"
    /\ sim_downloads = 1
    /\ Len(list) = 2
    /\ list[1] # list[2]
    /\ \A i \in DOMAIN task : task[i].out = "downloaded"
    /\ requested = {1, 2}

----------------------------------------------------------------------------
(* Properties of main: the marker over a sequence of runs *)

\* the step of main that writes the marker
WritesMarker == mainPc = "download" /\ mainPc' = "ended" /\ mainRes' = "Ok"

\* C38: over runs of one key that all have --update set, the id of the
\* persisted marker never decreases: a run leaves the marker as it is, or
\* replaces it by a marker whose id is strictly greater. Each run starts from
\* any marker an earlier run can have left.
C38_MarkerNeverDecreases ==
    [][ update =>
          IF WritesMarker
          THEN /\ MarkerPost(marker') # None
               /\ \A old \in MarkerPost(marker), new \in MarkerPost(marker') :
                     new.id > old.id
          ELSE marker' = marker
      ]_vars

\* a run with --update that found a marker with id 5 has left one with id 10
C38_Witness ==
    /\ update
    /\ mainPc = "ended"
    /\ mainRes = "Ok"
    /\ \E e \in resumeLog : \E old \in MarkerPost(e.marker) : old.id = 5
    /\ \E new \in MarkerPost(marker) : new.id = 10

----------------------------------------------------------------------------
(* Properties of the archive: the bytes of an entry *)

\* C39: in archive mode the bytes stored in the entry of a Post are the whole
\* fetched body, the chunks received one after the other, for every way the
\* body is cut into chunks and whether or not the response declares a content
\* length.
C39_EntryHoldsWholeBody ==
    \A k \in DOMAIN zip.entries :
       zip.entries[k].kind = "media"
       => \E i \in DOMAIN list :
             /\ zip.entries[k].name = EntryName(list[i])
             /\ zip.entries[k].bytes = Body(list[i])

\* an entry that does hold the whole body: declared length, two chunks
C39_WholeBodyReached ==
    /\ dl = "done"
    /\ \E k \in DOMAIN zip.entries :
          /\ zip.entries[k].kind = "media"
          /\ zip.entries[k].bytes = <<1, 2>>

----------------------------------------------------------------------------
(* Properties of main: the marker of a run into a fresh output *)

\* the run found no marker, hence (in archive mode) no directory of the tags
FreshOutput == \A e \in resumeLog : ~e.marker.exists

\* the download has returned Ok and main has gone through the persist step
RunEnded == mainPc = "ended" /\ dl = "done"

\* the run ended well and left the marker of its last Post in the directory
\* of the tags
MarkerWritten ==
    /\ mainRes = "Ok"
    /\ TagDir \in dirs
    /\ MarkerPost(marker) = last_post

\* C40: a run in archive mode into a fresh output, its Posts all processed,
\* ends well with the marker persisted: when the marker is written its
\* directory <output>/<imageboard>/<tags>/ exists, and the persist step does
\* not fail the run with an I/O error.
C40_ArchiveRunPersistsMarker ==
    (cbz /\ FreshOutput /\ RunEnded) => MarkerWritten

\* the same for a run in folder mode
C40_FolderRunPersistsMarker ==
    (~cbz /\ FreshOutput /\ RunEnded) => MarkerWritten

\* a run in folder mode into a fresh output has ended
C40_FolderRunReached ==
    /\ ~cbz /\ FreshOutput /\ RunEnded
    /\ \A i \in DOMAIN task : task[i].out = "downloaded"
    /\ Len(list) = 2

====
